---- MODULE Spec2Model ----
(***************************************************************************)
(* Model of the Meta Ads dashboard repository:                             *)
(*   - server.py          the threaded HTTP server and its /api/refresh    *)
(*   - build_dashboard.py the load / aggregate / cross-reference pipeline  *)
(*   - analyze_ventas.py  the stand-alone sales analysis and its parser    *)
(*   - audit_ventas.py    the stand-alone audit of META sales              *)
(*   - sync_ventas.py     the sheet download and its cache                 *)
(*   - refresh_meta.py    the four Meta Ads fetches                        *)
(* Text is modelled as sequences of one-character strings, numbers that can *)
(* be fractional as reduced fractions [n, d].                              *)
(***************************************************************************)
EXTENDS Integers, Sequences, FiniteSets, TLC

\* ------------------------------------------------------------------ bounds
NThreads == 2
MaxCamps == 2
MaxRows == 2
MaxStrLen == 3

VARIABLES
    \* server.py
    pc,          \* per request thread: position inside do_GET / _handle_refresh
    lock,        \* _refresh_lock: 0 when free, else the thread that holds it
    ran,         \* per thread: the refresh steps whose subprocess was started
    outcome,     \* per thread: how each started step ended
    overall_ok,  \* per thread: the local overall_ok of _handle_refresh
    resp,        \* per thread: the response written by _json_response
    disk,        \* per data file: whether the latest accepted refresh rewrote it
    \* build_dashboard.py (one run of the script)
    bpc,                      \* position in the script
    sheet,                    \* what the Google Sheet export would return
    ventas_file,              \* ventas_2026.csv: Missing, or its rows (header first)
    campaign_file,            \* the "data" list of the campaign insights JSON
    daily_file,               \* the "data" list of the daily insights JSON
    adset_file,               \* the "data" list of the ad set insights JSON
    missing_json,             \* which of the three JSON files do not exist
    sync_warning,             \* the auto-sync printed its warning
    ventas_raw,
    campaign_raw,
    daily_raw,
    adset_raw,
    campaigns,
    kpis,                     \* the account-level totals and averages
    daily_agg,
    daily_series,             \* daily_dates and the lists computed along it
    adsets,
    totals,                   \* the scalar ventas statistics
    ventas_by_source,
    ventas_by_month,
    meta_ventas_by_campaign,
    meta_ventas_by_asesor,
    meta_ventas_by_creative,
    campaign_roas,
    roas_rows,                \* what build_campaign_roas_rows renders
    \* the currency parsers, applied to one cell
    cell,                     \* the text of a price cell
    parsed,                   \* what each parser returned for it
    \* analyze_ventas.py (one run of the script)
    apc,                      \* position in the script
    analyze_rows,             \* its rows list
    analyze_meta,             \* what its META section computed
    analyze_summary,          \* what its per-source and per-month sections computed
    \* audit_ventas.py (one run of the script)
    upc,                      \* position in the script
    audit_rows,               \* its rows list
    audit_counts,             \* its con_precio / sin_precio counters
    creativos,
    \* sync_ventas.py (one run of the script)
    spc,                      \* position in the script
    sync_argv,                \* sys.argv[1:]
    csv,                      \* ventas_2026.csv: existence, age of its mtime, content
    csv_found,                \* the file as the run found it
    sync_response,            \* what urlopen(...).read() gave or raised
    sync_exit,                \* the exit code, -1 while running
    \* refresh_meta.py (one run of the script)
    mpc,                      \* 0 before the run, then the fetch main() is at
    meta_results,             \* how the api_call of each fetch so far ended
    meta_files,               \* per JSON file: "old", or "new" once written
    meta_ok,                  \* the local ok of main()
    meta_exit                 \* the exit code, -1 while running

serverVars == <<pc, lock, ran, outcome, overall_ok, resp, disk>>
adFiles == <<campaign_file, daily_file, adset_file, missing_json>>
adRaw == <<campaign_raw, daily_raw, adset_raw>>
dailyVars == <<daily_agg, daily_series>>
ventasAggs == <<totals, ventas_by_source, ventas_by_month, meta_ventas_by_campaign,
                meta_ventas_by_asesor, meta_ventas_by_creative>>
buildVars == <<bpc, sheet, ventas_file, adFiles, sync_warning, ventas_raw, adRaw,
               campaigns, kpis, dailyVars, adsets, ventasAggs, campaign_roas,
               roas_rows>>
parseVars == <<cell, parsed>>
analysisVars == <<apc, analyze_rows, analyze_meta, analyze_summary,
                  upc, audit_rows, audit_counts, creativos>>
syncVars == <<spc, sync_argv, csv, csv_found, sync_response, sync_exit>>
metaVars == <<mpc, meta_results, meta_files, meta_ok, meta_exit>>
fetchVars == <<syncVars, metaVars>>
scriptVars == <<analysisVars, fetchVars>>
vars == <<serverVars, buildVars, parseVars, scriptVars>>

\* ======================================================= text and numbers
\* Python str values are sequences of one-character strings.

Whitespace == {" ", "\t", "\n"}

RECURSIVE LStrip(_)
LStrip(s) ==
    IF s # <<>> /\ Head(s) \in Whitespace THEN LStrip(Tail(s)) ELSE s

RECURSIVE RStrip(_)
RStrip(s) ==
    IF s # <<>> /\ s[Len(s)] \in Whitespace
    THEN RStrip(SubSeq(s, 1, Len(s) - 1))
    ELSE s

\* str.strip()
Strip(s) == RStrip(LStrip(s))

UpperLetters == <<"A", "B", "C", "D", "E", "F", "G", "H", "I", "J", "K", "L", "M",
                  "N", "Ñ", "O", "P", "Q", "R", "S", "T", "U", "V", "W", "X", "Y", "Z">>
LowerLetters == <<"a", "b", "c", "d", "e", "f", "g", "h", "i", "j", "k", "l", "m",
                  "n", "ñ", "o", "p", "q", "r", "s", "t", "u", "v", "w", "x", "y", "z">>

LowerChar(c) ==
    IF \E i \in DOMAIN UpperLetters : UpperLetters[i] = c
    THEN LowerLetters[CHOOSE i \in DOMAIN UpperLetters : UpperLetters[i] = c]
    ELSE c

\* str.lower()
Lower(s) == [i \in DOMAIN s |-> LowerChar(s[i])]

UpperChar(c) ==
    IF \E i \in DOMAIN LowerLetters : LowerLetters[i] = c
    THEN UpperLetters[CHOOSE i \in DOMAIN LowerLetters : LowerLetters[i] = c]
    ELSE c

\* str.upper()
Upper(s) == [i \in DOMAIN s |-> UpperChar(s[i])]

\* "sub in s" on two str values
Contains(s, sub) ==
    \E i \in 1..(Len(s) - Len(sub) + 1) : SubSeq(s, i, i + Len(sub) - 1) = sub

\* str.replace(old, new): left to right, non-overlapping, one pass.
RECURSIVE Replace(_, _, _)
Replace(s, old, new) ==
    IF Len(s) < Len(old) THEN s
    ELSE IF SubSeq(s, 1, Len(old)) = old
         THEN new \o Replace(SubSeq(s, Len(old) + 1, Len(s)), old, new)
         ELSE <<Head(s)>> \o Replace(Tail(s), old, new)

\* Numbers that may be fractional are reduced fractions n/d with d > 0.
RECURSIVE GCD(_, _)
GCD(a, b) == IF b = 0 THEN a ELSE GCD(b, a % b)

Abs(x) == IF x < 0 THEN -x ELSE x

Rat(n, d) ==
    LET g == GCD(Abs(n), Abs(d))
        sg == IF d < 0 THEN -1 ELSE 1
    IN  [n |-> sg * (n \div g), d |-> sg * (d \div g)]

Zero == [n |-> 0, d |-> 1]
Num(i) == [n |-> i, d |-> 1]

RAdd(a, b) == Rat(a.n * b.d + b.n * a.d, a.d * b.d)
RMul(a, b) == Rat(a.n * b.n, a.d * b.d)
RLess(a, b) == a.n * b.d < b.n * a.d

\* A raised exception, as a value.
Raised(name) == [error |-> name]
IsError(x) == "error" \in DOMAIN x

\* Python's true division: a ZeroDivisionError when the divisor is 0.
RDiv(a, b) ==
    IF b.n = 0 THEN Raised("ZeroDivisionError") ELSE Rat(a.n * b.d, a.d * b.n)

Digits == <<"0", "1", "2", "3", "4", "5", "6", "7", "8", "9">>
IsDigit(c) == \E i \in DOMAIN Digits : Digits[i] = c
DigitVal(c) == (CHOOSE i \in DOMAIN Digits : Digits[i] = c) - 1

RECURSIVE DigitsVal(_)
DigitsVal(s) ==
    IF s = <<>> THEN 0 ELSE 10 * DigitsVal(SubSeq(s, 1, Len(s) - 1)) + DigitVal(s[Len(s)])

\* The code points of the characters dates are written with.
CharOrd(c) == IF c = "-" THEN 45 ELSE 48 + DigitVal(c)

\* a < b on two str values: by code point, a proper prefix first.
RECURSIVE StrLess(_, _)
StrLess(a, b) ==
    IF b = <<>> THEN FALSE
    ELSE IF a = <<>> THEN TRUE
    ELSE IF Head(a) = Head(b) THEN StrLess(Tail(a), Tail(b))
    ELSE CharOrd(Head(a)) < CharOrd(Head(b))

\* sorted(set(...)) of str values
RECURSIVE SortedStrs(_)
SortedStrs(S) ==
    IF S = {} THEN <<>>
    ELSE LET m == CHOOSE x \in S : \A y \in S \ {x} : StrLess(x, y)
         IN  <<m>> \o SortedStrs(S \ {m})

RECURSIVE Pow10(_)
Pow10(k) == IF k = 0 THEN 1 ELSE 10 * Pow10(k - 1)

\* floor(x) of a fraction
Floor(x) == IF x.n >= 0 THEN x.n \div x.d ELSE -((-x.n + x.d - 1) \div x.d)

\* round(x, ndigits): to the nearest multiple of 10^-ndigits, a tie to the
\* even one.
Round(x, ndigits) ==
    LET scaled == RMul(x, Num(Pow10(ndigits)))
        lo == Floor(scaled)
        twice == RAdd(RAdd(scaled, scaled), Num(-2 * lo))
        up == \/ RLess(Num(1), twice)
              \/ (twice = Num(1) /\ lo % 2 = 1)
    IN  Rat(IF up THEN lo + 1 ELSE lo, Pow10(ndigits))

\* float(s) on a str: surrounding whitespace is ignored, then an optional sign
\* and decimal digits with at most one point and at least one digit. Anything
\* else is a ValueError. (Exponents, "inf", "nan" and digit-group underscores
\* need characters outside the alphabets the model draws its inputs from.)
Float(s) ==
    LET t == Strip(s)
        signed == t # <<>> /\ Head(t) \in {"+", "-"}
        body == IF signed THEN Tail(t) ELSE t
        points == {i \in DOMAIN body : body[i] = "."}
        digits == SelectSeq(body, IsDigit)
        frac == IF points = {} THEN 0
                ELSE Len(body) - (CHOOSE i \in points : TRUE)
        wellFormed ==
            /\ digits # <<>>
            /\ Cardinality(points) <= 1
            /\ \A i \in DOMAIN body : IsDigit(body[i]) \/ body[i] = "."
    IN  IF wellFormed
        THEN Rat((IF signed /\ Head(t) = "-" THEN -1 ELSE 1) * DigitsVal(digits),
                 Pow10(frac))
        ELSE Raised("ValueError")

\* A variant of the parser that forgets to drop the thousands separators.
parse_cop_value_KeepDots(val) ==
    LET s == Replace(Replace(Strip(val), <<"$">>, <<>>), <<",">>, <<".">>)
    IN  IF IsError(Float(s)) THEN Zero ELSE Float(s)

\* build_dashboard.parse_cop_value: "$45.626.500" -> 45626500, 0 on failure.
parse_cop_value(val) ==
    LET s == Replace(Replace(Replace(Strip(val), <<"$">>, <<>>), <<".">>, <<>>),
                     <<",">>, <<".">>)
    IN  IF IsError(Float(s)) THEN Zero ELSE Float(s)

\* analyze_ventas.parse_cop: the same parser, defined again in that script.
parse_cop(val) ==
    LET s == Replace(Replace(Replace(Strip(val), <<"$">>, <<>>), <<".">>, <<>>),
                     <<",">>, <<".">>)
    IN  IF IsError(Float(s)) THEN Zero ELSE Float(s)

\* A variant of the join key that leaves the letter case alone.
normalize_camp_name_KeepCase(name) ==
    Replace(Strip(name), <<" ", " ">>, <<" ">>)

\* build_dashboard.normalize_camp_name
normalize_camp_name(name) ==
    Replace(Lower(Strip(name)), <<" ", " ">>, <<" ">>)

\* ======================================================= build_dashboard.py

\* A variant of the scan that adds up every entry of the type.
RECURSIVE get_action_value_Sum(_, _)
get_action_value_Sum(actions, action_type) ==
    IF actions = <<>> THEN Zero
    ELSE RAdd(IF Head(actions).action_type = action_type
              THEN Num(Head(actions).value) ELSE Zero,
              get_action_value_Sum(Tail(actions), action_type))

\* get_action_value: float(value) of the first entry of that type, else 0.
RECURSIVE get_action_value(_, _)
get_action_value(actions, action_type) ==
    IF actions = <<>> THEN Zero
    ELSE IF Head(actions).action_type = action_type
         THEN Num(Head(actions).value)
         ELSE get_action_value(Tail(actions), action_type)

\* get_cost_per_action: the same scan over cost_per_action_type.
RECURSIVE get_cost_per_action(_, _)
get_cost_per_action(cost_list, action_type) ==
    IF cost_list = <<>> THEN Zero
    ELSE IF Head(cost_list).action_type = action_type
         THEN Num(Head(cost_list).value)
         ELSE get_cost_per_action(Tail(cost_list), action_type)

\* The ventas file when it does not exist.
Missing == <<"missing">>

\* r[i] of a csv row, with the source's 0-based column index.
Col(r, i) == r[i + 1]

\* The loader's minimum column count.
MinCols == 13

\* A variant of the loader's row test that forgets the empty-first-field test.
KeepsRow_AnyFirstField(r) == ~(Len(r) < MinCols)

\* load_ventas: the rows that are not skipped by
\* "if len(r) < 13 or not r[0].strip(): continue".
KeepsRow(r) == ~(Len(r) < MinCols \/ Strip(Col(r, 0)) = <<>>)

\* str.isdigit(): true of the decimal digits and of the other characters of
\* the Unicode digit class, for which the superscript "²" stands.
IsDigitChar(c) == IsDigit(c) \/ c = "²"
IsDigitStr(s) == s # <<>> /\ \A i \in DOMAIN s : IsDigitChar(s[i])

None == <<"None">>
Some(n) == <<"int", n>>
IsNone(x) == x[1] = "None"

\* int(s) on a str: surrounding whitespace is ignored, then an optional sign
\* and decimal digits; anything else is a ValueError. (Digit-group underscores
\* need a character outside the alphabets the model draws its inputs from.)
IntOf(s) ==
    LET t == Strip(s)
        signed == t # <<>> /\ Head(t) \in {"+", "-"}
        body == IF signed THEN Tail(t) ELSE t
    IN  IF body # <<>> /\ \A i \in DOMAIN body : IsDigit(body[i])
        THEN Some((IF signed /\ Head(t) = "-" THEN -1 ELSE 1) * DigitsVal(body))
        ELSE <<"ValueError">>

\* "int(r[6].strip()) if r[6].strip().isdigit() else None"
DiasCierre(text) ==
    IF IsDigitStr(Strip(text)) THEN IntOf(Strip(text)) ELSE None

\* load_ventas: the record built from one kept row.
SaleRecord(r) ==
    [mes |-> Strip(Col(r, 0)),
     nombre |-> Strip(Col(r, 1)),
     asesor |-> Strip(Col(r, 2)),
     lote |-> Strip(Col(r, 3)),
     dia_contacto |-> Strip(Col(r, 4)),
     dia_cierre |-> Strip(Col(r, 5)),
     dias_cierre |-> DiasCierre(Col(r, 6)),
     fuente |-> Strip(Col(r, 7)),
     campana |-> Strip(Col(r, 8)),
     conjunto |-> Strip(Col(r, 9)),
     anuncio |-> Strip(Col(r, 10)),
     tipo_campana |-> Strip(Col(r, 11)),
     precio |-> parse_cop_value(Col(r, 12))]

RECURSIVE LoadRows(_)
LoadRows(rows) ==
    IF rows = <<>> THEN <<>>
    ELSE IF KeepsRow(Head(rows))
         THEN <<SaleRecord(Head(rows))>> \o LoadRows(Tail(rows))
         ELSE LoadRows(Tail(rows))

\* load_ventas(path): [] with a warning when the file does not exist; the
\* first row is the header and is skipped.
load_ventas(file) ==
    IF file = Missing THEN <<>> ELSE LoadRows(Tail(file))

\* load_ventas(path) ends with the ValueError of int() when a kept row's
\* days-to-close text passes isdigit() and is not a decimal number.
load_ventas_raises(file) ==
    \E i \in DOMAIN load_ventas(file) :
        load_ventas(file)[i].dias_cierre[1] = "ValueError"

\* int(x) on a non-negative float: truncation.
ToInt(x) == x.n \div x.d

\* dict.get(key, default)
Get(c, key, default) == IF key \in DOMAIN c THEN c[key] ELSE default

TRAF == <<"T", "R", "A", "F">>
RECON == <<"R", "E", "C", "O", "N">>
MENSAJES == <<"M", "E", "N", "S", "A", "J", "E", "S">>
FORM == <<"F", "O", "R", "M">>
LEAD == <<"L", "E", "A", "D">>

\* A variant of the inference that tests the LEADS markers first.
infer_objective_LeadsFirst(campaign_name) ==
    LET name_upper == Upper(campaign_name)
    IN  IF Contains(name_upper, FORM) \/ Contains(name_upper, LEAD) THEN "LEADS"
        ELSE IF Contains(name_upper, TRAF) THEN "TRAFFIC"
        ELSE IF Contains(name_upper, RECON) \/ Contains(name_upper, MENSAJES)
             THEN "AWARENESS"
        ELSE "OTHER"

\* infer_objective: the objective a campaign's name stands for.
infer_objective(campaign_name) ==
    LET name_upper == Upper(campaign_name)
    IN  IF Contains(name_upper, TRAF) THEN "TRAFFIC"
        ELSE IF Contains(name_upper, RECON) \/ Contains(name_upper, MENSAJES)
             THEN "AWARENESS"
        ELSE IF Contains(name_upper, FORM) \/ Contains(name_upper, LEAD) THEN "LEADS"
        ELSE "OTHER"

\* A variant of the CPL fallback that divides whenever nothing was reported.
Cpl_NoLeadsGuard(cost_actions, spend, leads) ==
    LET cpl == get_cost_per_action(cost_actions, "lead")
    IN  IF cpl = Zero THEN RDiv(Num(spend), leads) ELSE cpl

\* "cpl = get_cost_per_action(...); if cpl == 0 and leads > 0: cpl = spend / leads"
Cpl(cost_actions, spend, leads) ==
    LET cpl == get_cost_per_action(cost_actions, "lead")
    IN  IF cpl = Zero /\ RLess(Zero, leads) THEN RDiv(Num(spend), leads) ELSE cpl

\* The campaign record built in the "Process campaign-level" loop. (The id,
\* cpc, reach, frequency and the other action counts are copied the same way
\* and are left out.)
Campaign(c) ==
    LET actions == Get(c, "actions", <<>>)
        cost_actions == Get(c, "cost_per_action_type", <<>>)
        spend == Get(c, "spend", 0)
        leads == get_action_value(actions, "lead")
        link_clicks == get_action_value(actions, "link_click")
    IN  [name |-> c.campaign_name,
         impressions |-> Get(c, "impressions", 0),
         clicks |-> Get(c, "clicks", 0),
         spend |-> spend,
         cpm |-> Get(c, "cpm", Zero),
         ctr |-> Get(c, "ctr", Zero),
         leads |-> ToInt(leads),
         link_clicks |-> ToInt(link_clicks),
         cpl |-> Cpl(cost_actions, spend, leads),
         objective |-> infer_objective(c.campaign_name)]

\* The ad set record built in the "Process ad set data" loop.
Adset(a) ==
    LET actions == Get(a, "actions", <<>>)
        cost_actions == Get(a, "cost_per_action_type", <<>>)
        spend == Get(a, "spend", 0)
        leads == get_action_value(actions, "lead")
        link_clicks == get_action_value(actions, "link_click")
    IN  [campaign_name |-> Get(a, "campaign_name", <<>>),
         name |-> Get(a, "adset_name", <<>>),
         impressions |-> Get(a, "impressions", 0),
         clicks |-> Get(a, "clicks", 0),
         spend |-> spend,
         cpm |-> Get(a, "cpm", Zero),
         ctr |-> Get(a, "ctr", Zero),
         leads |-> ToInt(leads),
         link_clicks |-> ToInt(link_clicks),
         cpl |-> Cpl(cost_actions, spend, leads)]

\* A variant of the recent window that takes every date of the dataset.
last_3_dates_AllDates(daily) == {daily[i].date_start : i \in DOMAIN daily}

\* last_3_dates: the last three of the sorted distinct dates, all of them when
\* there are fewer than three.
last_3_dates(daily) ==
    LET all_daily_dates == SortedStrs({daily[i].date_start : i \in DOMAIN daily})
        n == Len(all_daily_dates)
    IN  IF n >= 3 THEN {all_daily_dates[i] : i \in (n - 2)..n}
        ELSE {all_daily_dates[i] : i \in DOMAIN all_daily_dates}

\* recent_spend_by_camp.get(name, 0)
RECURSIVE recent_spend(_, _, _)
recent_spend(daily, dates, name) ==
    IF daily = <<>> THEN 0
    ELSE (IF Head(daily).date_start \in dates /\ Head(daily).campaign_name = name
          THEN Get(Head(daily), "spend", 0) ELSE 0)
         + recent_spend(Tail(daily), dates, name)

\* "c['is_active'] = recent_spend_by_camp.get(c['name'], 0) > 0"
WithStatus(c, daily) ==
    [k \in DOMAIN c \cup {"is_active"} |->
        IF k = "is_active"
        THEN recent_spend(daily, last_3_dates(daily), c.name) > 0
        ELSE c[k]]

\* campaigns.sort(key=spend, reverse=True): stable, largest spend first.
RECURSIVE InsertBySpend(_, _)
InsertBySpend(sorted, x) ==
    IF sorted = <<>> THEN <<x>>
    ELSE IF Head(sorted).spend < x.spend
         THEN <<x>> \o sorted
         ELSE <<Head(sorted)>> \o InsertBySpend(Tail(sorted), x)

RECURSIVE SortBySpend(_)
SortBySpend(cs) ==
    IF cs = <<>> THEN <<>>
    ELSE InsertBySpend(SortBySpend(SubSeq(cs, 1, Len(cs) - 1)), cs[Len(cs)])

\* sum(c[field] for c in campaigns)
RECURSIVE SumField(_, _)
SumField(cs, field) ==
    IF cs = <<>> THEN 0 ELSE Head(cs)[field] + SumField(Tail(cs), field)

\* A variant of the ratio without the zero test.
Ratio_NoGuard(num, den, scale) ==
    LET q == RDiv(Num(num), Num(den))
    IN  IF IsError(q) THEN q ELSE RMul(q, Num(scale))

\* "(num / den * scale) if den else 0"
Ratio(num, den, scale) ==
    IF den # 0 THEN RMul(RDiv(Num(num), Num(den)), Num(scale)) ELSE Zero

\* "Compute account-level KPIs"
AccountKpis(cs) ==
    LET total_spend == SumField(cs, "spend")
        total_impressions == SumField(cs, "impressions")
        total_clicks == SumField(cs, "clicks")
        total_leads == SumField(cs, "leads")
    IN  [total_spend |-> total_spend,
         total_impressions |-> total_impressions,
         total_clicks |-> total_clicks,
         total_leads |-> total_leads,
         avg_ctr |-> Ratio(total_clicks, total_impressions, 100),
         avg_cpm |-> Ratio(total_spend, total_impressions, 1000),
         avg_cpl |-> Ratio(total_spend, total_leads, 1)]

\* daily_agg: the counters of the daily rows, added up per date.
RECURSIVE DailyAgg(_, _)
DailyAgg(daily, acc) ==
    IF daily = <<>> THEN acc
    ELSE LET row == Head(daily)
             date == row.date_start
             actions == Get(row, "actions", <<>>)
             cur == IF date \in DOMAIN acc THEN acc[date]
                    ELSE [spend |-> 0, impressions |-> 0, clicks |-> 0,
                          leads |-> 0, link_clicks |-> 0]
             new == [spend |-> cur.spend + Get(row, "spend", 0),
                     impressions |-> cur.impressions + Get(row, "impressions", 0),
                     clicks |-> cur.clicks + Get(row, "clicks", 0),
                     leads |-> cur.leads + ToInt(get_action_value(actions, "lead")),
                     link_clicks |-> cur.link_clicks
                                     + ToInt(get_action_value(actions, "link_click"))]
         IN  DailyAgg(Tail(daily),
                      [k \in DOMAIN acc \cup {date} |->
                           IF k = date THEN new ELSE acc[k]])

\* The per-date series: daily_dates and the lists computed along it.
DailySeries(agg) ==
    LET daily_dates == SortedStrs(DOMAIN agg)
    IN  [i \in DOMAIN daily_dates |->
            LET d == agg[daily_dates[i]]
            IN  [date |-> daily_dates[i],
                 spend |-> d.spend,
                 leads |-> d.leads,
                 impressions |-> d.impressions,
                 clicks |-> d.clicks,
                 cpl |-> IF d.leads > 0
                         THEN Round(RDiv(Num(d.spend), Num(d.leads)), 0) ELSE Zero,
                 ctr |-> IF d.impressions > 0
                         THEN Round(Ratio(d.clicks, d.impressions, 100), 2) ELSE Zero,
                 cpm |-> IF d.impressions > 0
                         THEN Round(Ratio(d.spend, d.impressions, 1000), 0)
                         ELSE Zero]]

\* "a['is_active'] = a['campaign_name'] in _active_camp_names"
AdsetWithStatus(a, cs) ==
    [k \in DOMAIN a \cup {"is_active"} |->
        IF k = "is_active"
        THEN \E i \in DOMAIN cs : cs[i].is_active /\ cs[i].name = a.campaign_name
        ELSE a[k]]

\* adsets.sort(key=(0 if is_active else 1, -spend)): stable, ON first, then
\* largest spend first.
AdsetBefore(a, b) ==
    \/ a.is_active /\ ~b.is_active
    \/ a.is_active = b.is_active /\ a.spend > b.spend

RECURSIVE InsertAdset(_, _)
InsertAdset(sorted, x) ==
    IF sorted = <<>> THEN <<x>>
    ELSE IF AdsetBefore(x, Head(sorted))
         THEN <<x>> \o sorted
         ELSE <<Head(sorted)>> \o InsertAdset(Tail(sorted), x)

RECURSIVE SortAdsets(_)
SortAdsets(as) ==
    IF as = <<>> THEN <<>>
    ELSE InsertAdset(SortAdsets(SubSeq(as, 1, Len(as) - 1)), as[Len(as)])

\* The defaultdict reduce used for every ventas aggregate: pairs is the
\* sequence of (key, precio) contributions in input order.
RECURSIVE Tally(_, _)
Tally(pairs, acc) ==
    IF pairs = <<>> THEN acc
    ELSE LET p == Head(pairs)
             cur == IF p.key \in DOMAIN acc THEN acc[p.key]
                    ELSE [count |-> 0, revenue |-> Zero]
             new == [count |-> cur.count + 1,
                     revenue |-> RAdd(cur.revenue, p.precio)]
         IN  Tally(Tail(pairs),
                   [k \in DOMAIN acc \cup {p.key} |->
                        IF k = p.key THEN new ELSE acc[k]])

EmptyDict == [k \in {} |-> 0]

RECURSIVE SumPrecio(_)
SumPrecio(vs) ==
    IF vs = <<>> THEN Zero ELSE RAdd(Head(vs).precio, SumPrecio(Tail(vs)))

META == <<"M", "E", "T", "A">>
INMOBILIARIA == <<"I", "N", "M", "O", "B", "I", "L", "I", "A", "R", "I", "A">>

IsMeta(v) == v.fuente = META

\* A variant of the contributions that keeps the records whose key is empty.
RECURSIVE Pairs_KeepEmpty(_, _)
Pairs_KeepEmpty(vs, field) ==
    IF vs = <<>> THEN <<>>
    ELSE LET v == Head(vs)
             k == CASE field = "fuente" -> v.fuente
                    [] field = "mes" -> v.mes
                    [] field = "campana" -> normalize_camp_name(v.campana)
                    [] field = "nombre" ->
                          IF v.nombre = INMOBILIARIA THEN <<>> ELSE v.nombre
                    [] field = "anuncio" -> v.anuncio
         IN  <<[key |-> k, precio |-> v.precio]>> \o Pairs_KeepEmpty(Tail(vs), field)

\* The (key, precio) contributions of a loop "for v in vs: k = key; if k: ...".
RECURSIVE Pairs(_, _)
Pairs(vs, field) ==
    IF vs = <<>> THEN <<>>
    ELSE LET v == Head(vs)
             k == CASE field = "fuente" -> v.fuente
                    [] field = "mes" -> v.mes
                    [] field = "campana" -> normalize_camp_name(v.campana)
                    [] field = "nombre" ->
                          IF v.nombre = INMOBILIARIA THEN <<>> ELSE v.nombre
                    [] field = "anuncio" -> v.anuncio
         IN  (IF k # <<>> \/ field = "mes"
              THEN <<[key |-> k, precio |-> v.precio]>> ELSE <<>>)
             \o Pairs(Tail(vs), field)

\* A variant of the campaign aggregate that counts the sales of every source.
MetaVentasByCampaign_AllSources(vs) == Tally(Pairs(vs, "campana"), EmptyDict)

\* meta_ventas_by_campaign: META sales by normalized campaign name.
MetaVentasByCampaign(vs) ==
    Tally(Pairs(SelectSeq(vs, IsMeta), "campana"), EmptyDict)

\* A variant of the row computation without the zero guards.
CrossRow_NoGuards(c, by_campaign) ==
    LET cn == normalize_camp_name(c.name)
        vdata == IF cn \in DOMAIN by_campaign THEN by_campaign[cn]
                 ELSE [count |-> 0, revenue |-> Zero]
        pct == RDiv(Num(vdata.count), Num(c.leads))
    IN  [name |-> c.name,
         spend |-> c.spend,
         leads |-> c.leads,
         ventas |-> vdata.count,
         revenue |-> vdata.revenue,
         roas |-> RDiv(vdata.revenue, Num(c.spend)),
         conversion_rate |-> IF IsError(pct) THEN pct ELSE RMul(pct, Num(100)),
         cost_per_sale |-> RDiv(Num(c.spend), Num(vdata.count))]

\* One iteration of the campaign_roas loop: the row of campaign c.
CrossRow(c, by_campaign) ==
    LET cn == normalize_camp_name(c.name)
        vdata == IF cn \in DOMAIN by_campaign THEN by_campaign[cn]
                 ELSE [count |-> 0, revenue |-> Zero]
    IN  [name |-> c.name,
         spend |-> c.spend,
         leads |-> c.leads,
         ventas |-> vdata.count,
         revenue |-> vdata.revenue,
         roas |-> IF c.spend > 0 THEN RDiv(vdata.revenue, Num(c.spend)) ELSE Zero,
         conversion_rate |-> IF c.leads > 0
                             THEN RMul(RDiv(Num(vdata.count), Num(c.leads)), Num(100))
                             ELSE Zero,
         cost_per_sale |-> IF vdata.count > 0
                           THEN RDiv(Num(c.spend), Num(vdata.count)) ELSE Zero]

\* list.sort(key=revenue, reverse=True): stable, largest revenue first.
RECURSIVE InsertByRevenue(_, _)
InsertByRevenue(sorted, x) ==
    IF sorted = <<>> THEN <<x>>
    ELSE IF RLess(Head(sorted).revenue, x.revenue)
         THEN <<x>> \o sorted
         ELSE <<Head(sorted)>> \o InsertByRevenue(Tail(sorted), x)

RECURSIVE SortByRevenue(_)
SortByRevenue(rows) ==
    IF rows = <<>> THEN <<>>
    ELSE InsertByRevenue(SortByRevenue(SubSeq(rows, 1, Len(rows) - 1)),
                         rows[Len(rows)])

\* A variant of the cross-reference that drops the campaigns without sales.
CrossReference_OnlyWithSales(cs, by_campaign) ==
    SortByRevenue(SelectSeq([i \in DOMAIN cs |-> CrossRow(cs[i], by_campaign)],
                            LAMBDA r : r.ventas > 0))

\* campaign_roas: one row per campaign, then sorted by revenue.
CrossReference(cs, by_campaign) ==
    SortByRevenue([i \in DOMAIN cs |-> CrossRow(cs[i], by_campaign)])

\* A variant of the revenue cell that shows "-" whenever revenue is 0.
RevenueCell_NoPending(cr) ==
    IF RLess(Zero, cr.revenue) THEN <<"$", cr.revenue>> ELSE <<"-">>

\* build_campaign_roas_rows: the revenue cell of a row. The amount is kept as
\* the number that is formatted, not as its digits.
RevenueCell(cr) ==
    IF RLess(Zero, cr.revenue) THEN <<"$", cr.revenue>>
    ELSE IF cr.ventas > 0 THEN <<"Pendiente">>
    ELSE <<"-">>

\* build_campaign_roas_rows: rows with spend 0 are skipped; each other row
\* carries its cells.
RoasRows(crs) ==
    LET shown == SelectSeq(crs, LAMBDA cr : cr.spend # 0)
    IN  [i \in DOMAIN shown |->
            [name |-> shown[i].name,
             ventas |-> shown[i].ventas,
             rev_d |-> RevenueCell(shown[i]),
             roas_d |-> IF RLess(Zero, shown[i].roas)
                        THEN <<"x", shown[i].roas>> ELSE <<"-">>,
             conv_d |-> IF RLess(Zero, shown[i].conversion_rate)
                        THEN <<"%", shown[i].conversion_rate>> ELSE <<"-">>,
             cps_d |-> IF RLess(Zero, shown[i].cost_per_sale)
                       THEN <<"$", shown[i].cost_per_sale>> ELSE <<"-">>]]

\* sorted(xs) on a list of int
RECURSIVE InsertInt(_, _)
InsertInt(sorted, x) ==
    IF sorted = <<>> THEN <<x>>
    ELSE IF x < Head(sorted) THEN <<x>> \o sorted
    ELSE <<Head(sorted)>> \o InsertInt(Tail(sorted), x)

RECURSIVE SortedInts(_)
SortedInts(xs) ==
    IF xs = <<>> THEN <<>> ELSE InsertInt(SortedInts(Tail(xs)), Head(xs))

RECURSIVE SumInts(_)
SumInts(xs) == IF xs = <<>> THEN 0 ELSE Head(xs) + SumInts(Tail(xs))

\* "meta_ventas_revenue / meta_ventas_count if meta_ventas_count else 0"
AvgTicket(revenue, count) == IF count # 0 THEN RDiv(revenue, Num(count)) ELSE Zero

\* "meta_ventas_revenue / total_spend if total_spend > 0 else 0"
AccountRoas(revenue, total_spend) ==
    IF total_spend > 0 THEN RDiv(revenue, Num(total_spend)) ELSE Zero

\* "sum(xs) / len(xs) if xs else 0"
Average(xs) == IF xs # <<>> THEN RDiv(Num(SumInts(xs)), Num(Len(xs))) ELSE Zero

\* "sorted(xs)[len(xs)//2] if xs else 0"
Median(xs) == IF xs # <<>> THEN SortedInts(xs)[(Len(xs) \div 2) + 1] ELSE 0

\* meta_dias: "[v['dias_cierre'] for v in meta_ventas if v['dias_cierre'] is not None]"
MetaDias(meta_ventas) ==
    LET known == SelectSeq(meta_ventas, LAMBDA v : ~IsNone(v.dias_cierre))
    IN  [i \in DOMAIN known |-> known[i].dias_cierre[2]]

\* The script's top-level statements, in order.
NoSheet == <<"closed">>

BuildIdle ==
    /\ bpc = "off"
    /\ sheet = NoSheet
    /\ ventas_file = Missing
    /\ campaign_file = <<>>
    /\ daily_file = <<>>
    /\ adset_file = <<>>
    /\ missing_json = {}
    /\ sync_warning = FALSE
    /\ ventas_raw = <<>>
    /\ campaign_raw = <<>>
    /\ daily_raw = <<>>
    /\ adset_raw = <<>>
    /\ campaigns = <<>>
    /\ kpis = EmptyDict
    /\ daily_agg = EmptyDict
    /\ daily_series = <<>>
    /\ adsets = <<>>
    /\ totals = EmptyDict
    /\ ventas_by_source = EmptyDict
    /\ ventas_by_month = EmptyDict
    /\ meta_ventas_by_campaign = EmptyDict
    /\ meta_ventas_by_asesor = EmptyDict
    /\ meta_ventas_by_creative = EmptyDict
    /\ campaign_roas = <<>>
    /\ roas_rows = <<>>

ParseIdle ==
    /\ cell = <<>>
    /\ parsed = EmptyDict

\* "Auto-sync ventas": sync_ventas.py is run with check=True inside
\* try/except; it downloads the sheet, or finds the cached file fresh, or
\* fails, and the script goes on in every case.
AutoSyncVentas ==
    /\ bpc = "sync"
    /\ \/ /\ ventas_file' = sheet
          /\ sync_warning' = FALSE
       \/ /\ ventas_file # Missing
          /\ UNCHANGED ventas_file
          /\ sync_warning' = FALSE
       \/ /\ UNCHANGED ventas_file
          /\ sync_warning' = TRUE
    /\ sheet' = NoSheet
    /\ bpc' = "load"
    /\ UNCHANGED <<adFiles, ventas_raw, adRaw, campaigns, kpis, dailyVars, adsets,
                   ventasAggs, campaign_roas, roas_rows>>
    /\ UNCHANGED <<serverVars, parseVars, scriptVars>>

\* The JSON files in the order "Load data" opens them.
JsonFiles == <<"campaign", "daily", "adset">>

\* load_json(path): open() raises FileNotFoundError when the file does not
\* exist; nothing tests for it. The result tells how many of the three files
\* were loaded before the first one that is missing.
LoadedJson ==
    IF "campaign" \in missing_json THEN 0
    ELSE IF "daily" \in missing_json THEN 1
    ELSE IF "adset" \in missing_json THEN 2
    ELSE 3

\* "Load data": the three load_json(...) calls, whose FileNotFoundError ends
\* the script, then load_ventas(...), whose ValueError ends the script.
LoadData ==
    /\ bpc = "load"
    /\ campaign_raw' = IF LoadedJson >= 1 THEN campaign_file ELSE <<>>
    /\ daily_raw' = IF LoadedJson >= 2 THEN daily_file ELSE <<>>
    /\ adset_raw' = IF LoadedJson >= 3 THEN adset_file ELSE <<>>
    /\ IF LoadedJson < 3 \/ load_ventas_raises(ventas_file)
       THEN /\ bpc' = "crashed"
            /\ UNCHANGED ventas_raw
       ELSE /\ bpc' = "campaigns"
            /\ ventas_raw' = load_ventas(ventas_file)
    /\ UNCHANGED <<sheet, ventas_file, adFiles, sync_warning, campaigns, kpis,
                   dailyVars, adsets, ventasAggs, campaign_roas, roas_rows>>
    /\ UNCHANGED <<serverVars, parseVars, scriptVars>>

\* "Process campaign-level": one campaign record per entry of the file.
ProcessCampaigns ==
    /\ bpc = "campaigns"
    /\ campaigns' = [i \in DOMAIN campaign_raw |-> Campaign(campaign_raw[i])]
    /\ bpc' = "status"
    /\ UNCHANGED <<sheet, ventas_file, adFiles, sync_warning, ventas_raw, adRaw,
                   kpis, dailyVars, adsets, ventasAggs, campaign_roas, roas_rows>>
    /\ UNCHANGED <<serverVars, parseVars, scriptVars>>

\* "Detect ON/OFF status": is_active from the recent daily spend, then the
\* campaigns are sorted by spend.
DetectStatus ==
    /\ bpc = "status"
    /\ campaigns' =
          SortBySpend([i \in DOMAIN campaigns |-> WithStatus(campaigns[i], daily_raw)])
    /\ bpc' = "kpis"
    /\ UNCHANGED <<sheet, ventas_file, adFiles, sync_warning, ventas_raw, adRaw,
                   kpis, dailyVars, adsets, ventasAggs, campaign_roas, roas_rows>>
    /\ UNCHANGED <<serverVars, parseVars, scriptVars>>

\* "Compute account-level KPIs"
ComputeKpis ==
    /\ bpc = "kpis"
    /\ kpis' = AccountKpis(campaigns)
    /\ bpc' = "daily"
    /\ UNCHANGED <<sheet, ventas_file, adFiles, sync_warning, ventas_raw, adRaw,
                   campaigns, dailyVars, adsets, ventasAggs, campaign_roas,
                   roas_rows>>
    /\ UNCHANGED <<serverVars, parseVars, scriptVars>>

\* "Process daily insights"
ProcessDaily ==
    /\ bpc = "daily"
    /\ daily_agg' = DailyAgg(daily_raw, EmptyDict)
    /\ daily_series' = DailySeries(DailyAgg(daily_raw, EmptyDict))
    /\ bpc' = "adsets"
    /\ UNCHANGED <<sheet, ventas_file, adFiles, sync_warning, ventas_raw, adRaw,
                   campaigns, kpis, adsets, ventasAggs, campaign_roas, roas_rows>>
    /\ UNCHANGED <<serverVars, parseVars, scriptVars>>

\* "Process ad set data": one record per entry, its status taken from its
\* campaign, then the sort.
ProcessAdsets ==
    /\ bpc = "adsets"
    /\ adsets' =
          SortAdsets([i \in DOMAIN adset_raw |->
                         AdsetWithStatus(Adset(adset_raw[i]), campaigns)])
    /\ bpc' = "ventas"
    /\ UNCHANGED <<sheet, ventas_file, adFiles, sync_warning, ventas_raw, adRaw,
                   campaigns, kpis, dailyVars, ventasAggs, campaign_roas,
                   roas_rows>>
    /\ UNCHANGED <<serverVars, parseVars, scriptVars>>

\* A variant of the month bucket update that counts a sale in the total only
\* inside the META branch.
MonthEntry_TotalInMetaBranch(cur, v) ==
    [total |-> IF IsMeta(v) THEN cur.total + 1 ELSE cur.total,
     revenue |-> RAdd(cur.revenue, v.precio),
     meta |-> IF IsMeta(v) THEN cur.meta + 1 ELSE cur.meta,
     meta_revenue |-> IF IsMeta(v) THEN RAdd(cur.meta_revenue, v.precio)
                      ELSE cur.meta_revenue]

\* The bucket of a month after one more record.
MonthEntry(cur, v) ==
    [total |-> cur.total + 1,
     revenue |-> RAdd(cur.revenue, v.precio),
     meta |-> IF IsMeta(v) THEN cur.meta + 1 ELSE cur.meta,
     meta_revenue |-> IF IsMeta(v) THEN RAdd(cur.meta_revenue, v.precio)
                      ELSE cur.meta_revenue]

\* ventas_by_month: every record is counted under its month, META ones twice.
RECURSIVE TallyMonth(_, _)
TallyMonth(vs, acc) ==
    IF vs = <<>> THEN acc
    ELSE LET v == Head(vs)
             cur == IF v.mes \in DOMAIN acc THEN acc[v.mes]
                    ELSE [total |-> 0, revenue |-> Zero,
                          meta |-> 0, meta_revenue |-> Zero]
         IN  TallyMonth(Tail(vs),
                        [k \in DOMAIN acc \cup {v.mes} |->
                             IF k = v.mes THEN MonthEntry(cur, v) ELSE acc[k]])

\* "Process Ventas Data": the totals and every keyed aggregate.
ProcessVentas ==
    /\ bpc = "ventas"
    /\ LET meta_ventas == SelectSeq(ventas_raw, IsMeta)
           meta_dias == MetaDias(meta_ventas)
       IN  /\ totals' = [ventas_total_count |-> Len(ventas_raw),
                         ventas_total_revenue |-> SumPrecio(ventas_raw),
                         meta_ventas_count |-> Len(meta_ventas),
                         meta_ventas_revenue |-> SumPrecio(meta_ventas),
                         meta_avg_ticket |-> AvgTicket(SumPrecio(meta_ventas),
                                                       Len(meta_ventas)),
                         roas |-> AccountRoas(SumPrecio(meta_ventas), kpis.total_spend),
                         meta_dias |-> meta_dias,
                         meta_avg_dias |-> Average(meta_dias),
                         meta_median_dias |-> Median(meta_dias)]
           /\ ventas_by_source' = Tally(Pairs(ventas_raw, "fuente"), EmptyDict)
           /\ ventas_by_month' = TallyMonth(ventas_raw, EmptyDict)
           /\ meta_ventas_by_campaign' = MetaVentasByCampaign(ventas_raw)
           /\ meta_ventas_by_asesor' = Tally(Pairs(meta_ventas, "nombre"), EmptyDict)
           /\ meta_ventas_by_creative' = Tally(Pairs(meta_ventas, "anuncio"), EmptyDict)
    /\ bpc' = "xref"
    /\ UNCHANGED <<sheet, ventas_file, adFiles, sync_warning, ventas_raw, adRaw,
                   campaigns, kpis, dailyVars, adsets, campaign_roas, roas_rows>>
    /\ UNCHANGED <<serverVars, parseVars, scriptVars>>

\* "Cross-reference": campaign_roas, built and sorted; a ZeroDivisionError in
\* a row ends the script.
CrossReferenceStep ==
    /\ bpc = "xref"
    /\ LET rows == [i \in DOMAIN campaigns |->
                       CrossRow(campaigns[i], meta_ventas_by_campaign)]
           failed == \E i \in DOMAIN rows :
                        \/ IsError(rows[i].roas)
                        \/ IsError(rows[i].conversion_rate)
                        \/ IsError(rows[i].cost_per_sale)
       IN  IF failed
           THEN /\ bpc' = "crashed"
                /\ UNCHANGED campaign_roas
           ELSE /\ bpc' = "rows"
                /\ campaign_roas' = CrossReference(campaigns, meta_ventas_by_campaign)
    /\ UNCHANGED <<sheet, ventas_file, adFiles, sync_warning, ventas_raw, adRaw,
                   campaigns, kpis, dailyVars, adsets, ventasAggs, roas_rows>>
    /\ UNCHANGED <<serverVars, parseVars, scriptVars>>

\* build_campaign_roas_rows(), called while the page is assembled.
BuildRoasRows ==
    /\ bpc = "rows"
    /\ roas_rows' = RoasRows(campaign_roas)
    /\ bpc' = "done"
    /\ UNCHANGED <<sheet, ventas_file, adFiles, sync_warning, ventas_raw, adRaw,
                   campaigns, kpis, dailyVars, adsets, ventasAggs, campaign_roas>>
    /\ UNCHANGED <<serverVars, parseVars, scriptVars>>

NextBuild ==
    \/ AutoSyncVentas
    \/ LoadData
    \/ ProcessCampaigns
    \/ DetectStatus
    \/ ComputeKpis
    \/ ProcessDaily
    \/ ProcessAdsets
    \/ ProcessVentas
    \/ CrossReferenceStep
    \/ BuildRoasRows

\* ============================================================ sync_ventas.py

\* "CACHE_MAX_AGE = 3600  # Skip download if file is less than 1 hour old"
CACHE_MAX_AGE == 3600

\* The command lines the repository runs the script with: the server's refresh
\* step, and the dashboard builder's auto-sync.
SheetsArgv == <<"--force">>
AutoSyncArgv == <<>>

\* ventas_2026.csv when it does not exist.
NoCsv == [exists |-> FALSE, age |-> 0, data |-> "none"]

\* The file left by an earlier run, age seconds ago.
CachedCsv(age) == [exists |-> TRUE, age |-> age, data |-> "cached"]

\* What "urlopen(req, timeout=30)" and "response.read()" end with: the bytes of
\* the export, bytes that are not UTF-8, or one of the exceptions caught.
Responses == {"csv", "garbled", "HTTPError", "URLError", "Exception"}

SyncIdle ==
    /\ spc = "off"
    /\ sync_argv = <<>>
    /\ csv = NoCsv
    /\ csv_found = NoCsv
    /\ sync_response = "none"
    /\ sync_exit = -1

\* A variant of the freshness test that counts a file of exactly the maximum
\* age as fresh.
is_cache_fresh_Inclusive(f) == f.exists /\ f.age <= CACHE_MAX_AGE

\* is_cache_fresh(): the file exists and its age is below CACHE_MAX_AGE.
is_cache_fresh(f) == f.exists /\ f.age < CACHE_MAX_AGE

\* '"--force" in sys.argv'
IsForce(argv) == \E i \in DOMAIN argv : argv[i] = "--force"

\* main(): a fresh cache without --force is a success and nothing is fetched.
SyncMain ==
    /\ spc = "main"
    /\ IF ~IsForce(sync_argv) /\ is_cache_fresh(csv)
       THEN spc' = "done" /\ sync_exit' = 0
       ELSE spc' = "urlopen" /\ UNCHANGED sync_exit
    /\ UNCHANGED <<sync_argv, csv, csv_found, sync_response>>
    /\ UNCHANGED <<analysisVars, metaVars>>
    /\ UNCHANGED <<serverVars, buildVars, parseVars>>

\* download_sheet(), the request: an exception is caught, False is returned
\* and the script exits with code 1.
SyncUrlopen ==
    /\ spc = "urlopen"
    /\ \E r \in Responses :
          /\ sync_response' = r
          /\ IF r \in {"csv", "garbled"}
             THEN spc' = "write" /\ UNCHANGED sync_exit
             ELSE spc' = "done" /\ sync_exit' = 1
    /\ UNCHANGED <<sync_argv, csv, csv_found>>
    /\ UNCHANGED <<analysisVars, metaVars>>
    /\ UNCHANGED <<serverVars, buildVars, parseVars>>

\* download_sheet(), "with open(OUTPUT_FILE, 'wb') as f: f.write(data)": the
\* bytes received replace the file.
SyncWrite ==
    /\ spc = "write"
    /\ csv' = [exists |-> TRUE, age |-> 0, data |-> sync_response]
    /\ spc' = "validate"
    /\ UNCHANGED <<sync_argv, csv_found, sync_response, sync_exit>>
    /\ UNCHANGED <<analysisVars, metaVars>>
    /\ UNCHANGED <<serverVars, buildVars, parseVars>>

\* download_sheet(), "# Validate": data.decode("utf-8") raises on bytes that
\* are not UTF-8, which "except Exception" turns into False; else True.
SyncValidate ==
    /\ spc = "validate"
    /\ sync_exit' = IF sync_response = "csv" THEN 0 ELSE 1
    /\ spc' = "done"
    /\ UNCHANGED <<sync_argv, csv, csv_found, sync_response>>
    /\ UNCHANGED <<analysisVars, metaVars>>
    /\ UNCHANGED <<serverVars, buildVars, parseVars>>

\* ============================================================ refresh_meta.py

\* The files of the four fetches, in the order main() calls them.
MetaFetches == <<"ad_insights.json", "daily_insights.json",
                 "adset_insights.json", "daily_adset_insights.json">>

\* How api_call(...) ends: the paged data, the ValueError of a missing token,
\* the Exception made of an HTTPError, or a URLError left uncaught by api_call.
ApiResults == {"data", "ValueError", "HTTPError", "URLError"}

MetaIdle ==
    /\ mpc = 0
    /\ meta_results = <<>>
    /\ meta_files = [f \in {MetaFetches[i] : i \in DOMAIN MetaFetches} |-> "old"]
    /\ meta_ok = TRUE
    /\ meta_exit = -1

FetchIdle == SyncIdle /\ MetaIdle

\* One "try: fetch_...() except Exception: ok = False" block of main(): the
\* fetch writes its file after api_call returned, so an exception of api_call
\* leaves the file alone.
Fetch(i) ==
    /\ mpc = i
    /\ \E r \in ApiResults :
          /\ meta_results' = Append(meta_results, r)
          /\ IF r = "data"
             THEN /\ meta_files' = [meta_files EXCEPT ![MetaFetches[i]] = "new"]
                  /\ UNCHANGED meta_ok
             ELSE /\ meta_ok' = FALSE
                  /\ UNCHANGED meta_files
    /\ mpc' = i + 1
    /\ UNCHANGED meta_exit
    /\ UNCHANGED <<analysisVars, syncVars>>
    /\ UNCHANGED <<serverVars, buildVars, parseVars>>

fetch_ad_insights == Fetch(1)
fetch_daily_insights == Fetch(2)
fetch_adset_insights == Fetch(3)
fetch_daily_adset_insights == Fetch(4)

\* "return ok" and "sys.exit(0 if main() else 1)".
MetaExit ==
    /\ mpc = Len(MetaFetches) + 1
    /\ meta_exit' = IF meta_ok THEN 0 ELSE 1
    /\ mpc' = Len(MetaFetches) + 2
    /\ UNCHANGED <<meta_results, meta_files, meta_ok>>
    /\ UNCHANGED <<analysisVars, syncVars>>
    /\ UNCHANGED <<serverVars, buildVars, parseVars>>

NextFetch ==
    \/ SyncMain
    \/ SyncUrlopen
    \/ SyncWrite
    \/ SyncValidate
    \/ fetch_ad_insights
    \/ fetch_daily_insights
    \/ fetch_adset_insights
    \/ fetch_daily_adset_insights
    \/ MetaExit

\* ========================================================= analyze_ventas.py

\* The analysis script's minimum column count.
MinColsAnalyze == 15

\* "len(r) >= 15 and r[0].strip()"
AnalyzeKeepsRow(r) == Len(r) >= MinColsAnalyze /\ Strip(Col(r, 0)) # <<>>

RowIsMeta(r) == Strip(Col(r, 7)) = META

\* "d.setdefault(key, []).append(valor)" over the rows whose key is not empty.
RECURSIVE GroupValores(_, _, _)
GroupValores(rows, key(_), acc) ==
    IF rows = <<>> THEN acc
    ELSE LET k == key(Head(rows))
             valor == parse_cop(Col(Head(rows), 12))
         IN  IF k = <<>> THEN GroupValores(Tail(rows), key, acc)
             ELSE GroupValores(Tail(rows), key,
                      [x \in DOMAIN acc \cup {k} |->
                          IF x = k
                          THEN (IF k \in DOMAIN acc THEN acc[k] ELSE <<>>) \o <<valor>>
                          ELSE acc[x]])

\* The advisor key of the analysis script: "asesor = r[1].strip()", kept when
\* it is not empty and not the placeholder.
AnalyzeAsesor(r) ==
    IF Strip(Col(r, 1)) = INMOBILIARIA THEN <<>> ELSE Strip(Col(r, 1))

\* "try: d = int(r[6].strip()); dias_cierre.append(d) except: pass"
RECURSIVE AnalyzeDias(_)
AnalyzeDias(rows) ==
    IF rows = <<>> THEN <<>>
    ELSE LET d == IntOf(Strip(Col(Head(rows), 6)))
         IN  (IF d[1] = "int" THEN <<d[2]>> ELSE <<>>) \o AnalyzeDias(Tail(rows))

RECURSIVE SumValor(_)
SumValor(rows) ==
    IF rows = <<>> THEN Zero
    ELSE RAdd(parse_cop(Col(Head(rows), 12)), SumValor(Tail(rows)))

\* The {'count': 0, 'valor': 0} reduce of the per-source and per-month sections;
\* a row whose key is empty is skipped when skipEmpty is set.
RECURSIVE TallyValor(_, _, _, _)
TallyValor(rows, col, skipEmpty, acc) ==
    IF rows = <<>> THEN acc
    ELSE LET k == Strip(Col(Head(rows), col))
             valor == parse_cop(Col(Head(rows), 12))
             cur == IF k \in DOMAIN acc THEN acc[k] ELSE [count |-> 0, valor |-> Zero]
             new == [count |-> cur.count + 1, valor |-> RAdd(cur.valor, valor)]
         IN  IF skipEmpty /\ k = <<>> THEN TallyValor(Tail(rows), col, skipEmpty, acc)
             ELSE TallyValor(Tail(rows), col, skipEmpty,
                      [x \in DOMAIN acc \cup {k} |-> IF x = k THEN new ELSE acc[x]])

ScriptsIdle ==
    /\ apc = "off"
    /\ analyze_rows = <<>>
    /\ analyze_meta = EmptyDict
    /\ analyze_summary = EmptyDict
    /\ upc = "off"
    /\ audit_rows = <<>>
    /\ audit_counts = EmptyDict
    /\ creativos = EmptyDict
    /\ FetchIdle

\* Lines 13-16: open() fails when the file does not exist; the header is
\* skipped and the rows are filtered.
AnalyzeLoad ==
    /\ apc = "load"
    /\ IF ventas_file = Missing
       THEN /\ apc' = "no_file"
            /\ UNCHANGED analyze_rows
       ELSE /\ apc' = "meta"
            /\ analyze_rows' = SelectSeq(Tail(ventas_file), AnalyzeKeepsRow)
    /\ UNCHANGED <<analyze_meta, analyze_summary, upc, audit_rows, audit_counts,
                   creativos>>
    /\ UNCHANGED fetchVars
    /\ UNCHANGED <<serverVars, buildVars, parseVars>>

\* Lines 20-85: the META rows, their groupings and days to close; the average
\* ticket divides by the number of META rows.
AnalyzeMeta ==
    /\ apc = "meta"
    /\ LET meta_rows == SelectSeq(analyze_rows, RowIsMeta)
           dias_cierre == AnalyzeDias(meta_rows)
           ticket == RDiv(SumValor(meta_rows), Num(Len(meta_rows)))
       IN  IF IsError(ticket)
           THEN /\ apc' = "crashed"
                /\ UNCHANGED analyze_meta
           ELSE /\ apc' = "summary"
                /\ analyze_meta' =
                      [meta_rows |-> meta_rows,
                       total_valor |-> SumValor(meta_rows),
                       ticket |-> ticket,
                       campanas |-> GroupValores(meta_rows,
                                       LAMBDA r : Lower(Strip(Col(r, 8))), EmptyDict),
                       asesores |-> GroupValores(meta_rows, AnalyzeAsesor, EmptyDict),
                       anuncios |-> GroupValores(meta_rows,
                                       LAMBDA r : Strip(Col(r, 10)), EmptyDict),
                       conjuntos |-> GroupValores(meta_rows,
                                       LAMBDA r : Strip(Col(r, 9)), EmptyDict),
                       dias_cierre |-> dias_cierre,
                       promedio |-> Average(dias_cierre),
                       mediana |-> Median(dias_cierre)]
    /\ UNCHANGED <<analyze_rows, analyze_summary, upc, audit_rows, audit_counts,
                   creativos>>
    /\ UNCHANGED fetchVars
    /\ UNCHANGED <<serverVars, buildVars, parseVars>>

\* Lines 87-134: the per-source and per-month summaries.
AnalyzeSummary ==
    /\ apc = "summary"
    /\ analyze_summary' =
          [fuentes |-> TallyValor(analyze_rows, 7, TRUE, EmptyDict),
           meta_por_mes |-> TallyValor(analyze_meta.meta_rows, 0, FALSE, EmptyDict),
           all_por_mes |-> TallyValor(analyze_rows, 0, FALSE, EmptyDict)]
    /\ apc' = "done"
    /\ UNCHANGED <<analyze_rows, analyze_meta, upc, audit_rows, audit_counts,
                   creativos>>
    /\ UNCHANGED fetchVars
    /\ UNCHANGED <<serverVars, buildVars, parseVars>>

\* =========================================================== audit_ventas.py

\* The audit script's minimum column count.
MinColsAudit == 13

\* "len(r) >= 13 and r[0].strip()"
AuditKeepsRow(r) == Len(r) >= MinColsAudit /\ Strip(Col(r, 0)) # <<>>

\* The price as the audit parses it in line.
audit_precio(val) ==
    LET s == Replace(Replace(Replace(Strip(val), <<"$">>, <<>>), <<".">>, <<>>),
                     <<",">>, <<".">>)
    IN  IF IsError(Float(s)) THEN Zero ELSE Float(s)

SinCreativo == <<"(", "s", "i", "n", " ", "c", "r", "e", "a", "t", "i", "v", "o", ")">>

\* A variant of the audit's bucket update that flags a row by its missing "$"
\* sign instead of by its parsed price.
CreativoEntry_FlagNoDollar(cur, val) ==
    [count |-> cur.count + 1,
     revenue |-> RAdd(cur.revenue, audit_precio(val)),
     sin_precio |-> IF ~Contains(val, <<"$">>) THEN cur.sin_precio + 1
                    ELSE cur.sin_precio]

\* The bucket of a creative after one more row, whose price cell is val.
CreativoEntry(cur, val) ==
    LET precio == audit_precio(val)
    IN  [count |-> cur.count + 1,
         revenue |-> RAdd(cur.revenue, precio),
         sin_precio |-> IF precio = Zero THEN cur.sin_precio + 1
                        ELSE cur.sin_precio]

\* creativos: per creative, the rows, their revenue and how many parsed to 0.
RECURSIVE Creativos(_, _)
Creativos(rows, acc) ==
    IF rows = <<>> THEN acc
    ELSE LET r == Head(rows)
             ad == IF Strip(Col(r, 10)) # <<>> THEN Strip(Col(r, 10)) ELSE SinCreativo
             cur == IF ad \in DOMAIN acc THEN acc[ad]
                    ELSE [count |-> 0, revenue |-> Zero, sin_precio |-> 0]
         IN  Creativos(Tail(rows),
                       [x \in DOMAIN acc \cup {ad} |->
                           IF x = ad THEN CreativoEntry(cur, Col(r, 12)) ELSE acc[x]])

\* Lines 6-9: as in the analysis script, with the audit's own row test.
AuditLoad ==
    /\ upc = "load"
    /\ IF ventas_file = Missing
       THEN /\ upc' = "no_file"
            /\ UNCHANGED audit_rows
       ELSE /\ upc' = "report"
            /\ audit_rows' = SelectSeq(Tail(ventas_file), AuditKeepsRow)
    /\ UNCHANGED <<apc, analyze_rows, analyze_meta, analyze_summary, audit_counts,
                   creativos>>
    /\ UNCHANGED fetchVars
    /\ UNCHANGED <<serverVars, buildVars, parseVars>>

\* Lines 11-46: the META rows with and without a "$" price, then creativos.
AuditReport ==
    /\ upc = "report"
    /\ LET meta == SelectSeq(audit_rows, RowIsMeta)
           tiene(r) == Strip(Col(r, 12)) # <<>> /\ Contains(Strip(Col(r, 12)), <<"$">>)
       IN  /\ audit_counts' =
                 [con_precio |-> Len(SelectSeq(meta, tiene)),
                  sin_precio |-> Len(SelectSeq(meta, LAMBDA r : ~tiene(r)))]
           /\ creativos' = Creativos(meta, EmptyDict)
    /\ upc' = "done"
    /\ UNCHANGED <<apc, analyze_rows, analyze_meta, analyze_summary, audit_rows>>
    /\ UNCHANGED fetchVars
    /\ UNCHANGED <<serverVars, buildVars, parseVars>>

NextScripts ==
    \/ NextBuild
    \/ AnalyzeLoad
    \/ AnalyzeMeta
    \/ AnalyzeSummary
    \/ AuditLoad
    \/ AuditReport

\* ================================================================ server.py
Threads == 1..NThreads

Steps == <<"sheets", "meta", "build">>

\* How a subprocess.run(...) call can end: exit code 0, non-zero exit code,
\* TimeoutExpired, or another exception raised by subprocess.run itself.
Outcomes == {"rc0", "nonzero", "timeout", "oserror"}

\* The data files of the working directory, as the refresh sees them: the sales
\* sheet export, the Meta Ads JSON exports (ad_insights.json, daily_insights.json,
\* adset_insights.json, daily_adset_insights.json, taken as one group) and the
\* rendered dashboard.
Files == {"ventas_2026.csv", "meta_json", "dashboard.html"}

\* A file is "old" when it predates the refresh that last took the lock, "new"
\* when that refresh wrote it, "partial" when only some files of the group
\* were rewritten.
Versions == {"old", "partial", "new"}

NoResp == [status |-> 0, ok |-> FALSE, sent |-> FALSE]

ServerIdle ==
    /\ pc = [t \in Threads |-> "idle"]
    /\ lock = 0
    /\ ran = [t \in Threads |-> <<>>]
    /\ outcome = [t \in Threads |-> <<>>]
    /\ overall_ok = [t \in Threads |-> TRUE]
    /\ resp = [t \in Threads |-> NoResp]
    /\ disk = [f \in Files |-> "old"]

\* do_GET with path /api/refresh: a fresh handler enters _handle_refresh.
do_GET(t) ==
    /\ pc[t] \in {"idle", "done"}
    /\ pc' = [pc EXCEPT ![t] = "try"]
    /\ ran' = [ran EXCEPT ![t] = <<>>]
    /\ outcome' = [outcome EXCEPT ![t] = <<>>]
    /\ overall_ok' = [overall_ok EXCEPT ![t] = TRUE]
    /\ resp' = [resp EXCEPT ![t] = NoResp]
    /\ UNCHANGED <<lock, disk>>
    /\ UNCHANGED <<buildVars, parseVars, scriptVars>>

\* _json_response: the status and body are fixed by the caller; writing to the
\* client socket either succeeds or raises.
JsonResponse(t, status, ok, sent) ==
    resp' = [resp EXCEPT ![t] = [status |-> status, ok |-> ok, sent |-> sent]]

\* A variant of the lock test that forgets the early return after the 409.
TryAcquireNoReturn(t) ==
    /\ pc[t] = "try"
    /\ IF lock = 0
       THEN /\ lock' = t
            /\ disk' = [f \in Files |-> "old"]
            /\ UNCHANGED resp
       ELSE /\ \E sent \in BOOLEAN : JsonResponse(t, 409, FALSE, sent)
            /\ UNCHANGED <<lock, disk>>
    /\ pc' = [pc EXCEPT ![t] = "sheets"]
    /\ UNCHANGED <<ran, outcome, overall_ok>>
    /\ UNCHANGED <<buildVars, parseVars, scriptVars>>

\* A variant of the lock test that enters the body whatever acquire() returned.
TryAcquireIgnoresLock(t) ==
    /\ pc[t] = "try"
    /\ lock' = t
    /\ pc' = [pc EXCEPT ![t] = "sheets"]
    /\ disk' = [f \in Files |-> "old"]
    /\ UNCHANGED <<ran, outcome, overall_ok, resp>>
    /\ UNCHANGED <<buildVars, parseVars, scriptVars>>

\* A variant of the lock test whose 409 path runs the release of the finally.
TryAcquire_RejectReleases(t) ==
    /\ pc[t] = "try"
    /\ IF lock = 0
       THEN /\ lock' = t
            /\ pc' = [pc EXCEPT ![t] = "sheets"]
            /\ disk' = [f \in Files |-> "old"]
            /\ UNCHANGED resp
       ELSE /\ \E sent \in BOOLEAN : JsonResponse(t, 409, FALSE, sent)
            /\ pc' = [pc EXCEPT ![t] = "done"]
            /\ lock' = 0
            /\ UNCHANGED disk
    /\ UNCHANGED <<ran, outcome, overall_ok>>
    /\ UNCHANGED <<buildVars, parseVars, scriptVars>>

\* _refresh_lock.acquire(blocking=False), and the 409 answer when it fails.
TryAcquire(t) ==
    /\ pc[t] = "try"
    /\ IF lock = 0
       THEN /\ lock' = t
            /\ pc' = [pc EXCEPT ![t] = "sheets"]
            /\ disk' = [f \in Files |-> "old"]
            /\ UNCHANGED resp
       ELSE /\ \E sent \in BOOLEAN : JsonResponse(t, 409, FALSE, sent)
            /\ pc' = [pc EXCEPT ![t] = "done"]
            /\ UNCHANGED <<lock, disk>>
    /\ UNCHANGED <<ran, outcome, overall_ok>>
    /\ UNCHANGED <<buildVars, parseVars, scriptVars>>

\* What a step's child process may leave on disk, given how it ended.
\* sync_ventas.py --force writes ventas_2026.csv before it validates it, so a
\* failing or killed run may or may not have replaced the file; refresh_meta.py
\* writes each file whose fetch succeeded and exits non-zero if any failed;
\* build_dashboard.py may re-sync the sheet first and writes dashboard.html last.
\* The result is a set of functions from the files touched to their version.
Written(step, o) ==
    CASE o = "oserror" -> {<<>>}
      [] step = "sheets" /\ o = "rc0" -> {[f \in {"ventas_2026.csv"} |-> "new"]}
      [] step = "sheets" -> {<<>>, [f \in {"ventas_2026.csv"} |-> "new"]}
      [] step = "meta" /\ o = "rc0" -> {[f \in {"meta_json"} |-> "new"]}
      [] step = "meta" /\ o = "nonzero" ->
            {<<>>, [f \in {"meta_json"} |-> "partial"]}
      [] step = "meta" ->
            {<<>>} \cup {[f \in {"meta_json"} |-> v] : v \in {"partial", "new"}}
      [] step = "build" /\ o = "rc0" ->
            {[f \in {"dashboard.html"} |-> "new"],
             [f \in {"dashboard.html", "ventas_2026.csv"} |-> "new"]}
      [] step = "build" /\ o = "nonzero" ->
            {<<>>, [f \in {"ventas_2026.csv"} |-> "new"]}
      [] OTHER ->
            {<<>>} \cup {[f \in S |-> "new"] :
                          S \in (SUBSET {"ventas_2026.csv", "dashboard.html"}) \ {{}}}

\* The disk after a child process left the files w behind.
Overwrite(w) ==
    [f \in Files |->
        IF f \in DOMAIN w
        THEN (IF disk[f] = "new" /\ w[f] = "partial" THEN "new" ELSE w[f])
        ELSE disk[f]]

\* One "try: subprocess.run(...) except Exception" block of _handle_refresh.
\* fatal tells whether a failure of this step clears overall_ok.
RunStep(t, step, next, fatal) ==
    /\ pc[t] = step
    /\ \E o \in Outcomes :
         /\ ran' = [ran EXCEPT ![t] = Append(@, step)]
         /\ outcome' = [outcome EXCEPT ![t] = Append(@, o)]
         /\ overall_ok' = [overall_ok EXCEPT
                             ![t] = IF fatal /\ o # "rc0" THEN FALSE ELSE @]
         /\ \E w \in Written(step, o) :
              disk' = Overwrite(w)
    /\ pc' = [pc EXCEPT ![t] = next]
    /\ UNCHANGED <<lock, resp>>
    /\ UNCHANGED <<buildVars, parseVars, scriptVars>>

\* A variant of step 1 in which an exception from the child aborts the refresh
\* (the outer finally still runs).
RunSheetsAbort(t) ==
    /\ pc[t] = "sheets"
    /\ \E o \in Outcomes :
         /\ ran' = [ran EXCEPT ![t] = Append(@, "sheets")]
         /\ outcome' = [outcome EXCEPT ![t] = Append(@, o)]
         /\ overall_ok' = [overall_ok EXCEPT ![t] = IF o # "rc0" THEN FALSE ELSE @]
         /\ \E w \in Written("sheets", o) :
              disk' = Overwrite(w)
         /\ pc' = [pc EXCEPT ![t] = IF o \in {"timeout", "oserror"}
                                    THEN "release" ELSE "meta"]
    /\ UNCHANGED <<lock, resp>>
    /\ UNCHANGED <<buildVars, parseVars, scriptVars>>

\* Step 1: sync_ventas.py --force (timeout 30 s).
RunSheets(t) == RunStep(t, "sheets", "meta", TRUE)

\* A variant of step 2 whose failure clears overall_ok.
RunMeta_Fatal(t) == RunStep(t, "meta", "build", TRUE)

\* Step 2: refresh_meta.py (timeout 120 s); a failure is logged only.
RunMeta(t) == RunStep(t, "meta", "build", FALSE)

\* Step 3: build_dashboard.py (timeout 120 s).
RunBuild(t) == RunStep(t, "build", "respond", TRUE)

\* A variant of the answer without the finally: when writing the response
\* raises, the handler is left with the lock still held.
Respond_NoFinally(t) ==
    /\ pc[t] = "respond"
    /\ \E sent \in BOOLEAN :
          /\ JsonResponse(t, 200, overall_ok[t], sent)
          /\ pc' = [pc EXCEPT ![t] = IF sent THEN "release" ELSE "done"]
    /\ UNCHANGED <<lock, ran, outcome, overall_ok, disk>>
    /\ UNCHANGED <<buildVars, parseVars, scriptVars>>

\* The 200 answer carrying overall_ok and the log.
Respond(t) ==
    /\ pc[t] = "respond"
    /\ \E sent \in BOOLEAN : JsonResponse(t, 200, overall_ok[t], sent)
    /\ pc' = [pc EXCEPT ![t] = "release"]
    /\ UNCHANGED <<lock, ran, outcome, overall_ok, disk>>
    /\ UNCHANGED <<buildVars, parseVars, scriptVars>>

\* finally: _refresh_lock.release(); the handler returns and its locals die.
Release(t) ==
    /\ pc[t] = "release"
    /\ lock' = 0
    /\ pc' = [pc EXCEPT ![t] = "done"]
    /\ ran' = [ran EXCEPT ![t] = <<>>]
    /\ outcome' = [outcome EXCEPT ![t] = <<>>]
    /\ overall_ok' = [overall_ok EXCEPT ![t] = TRUE]
    /\ UNCHANGED <<resp, disk>>
    /\ UNCHANGED <<buildVars, parseVars, scriptVars>>

NextServer ==
    \E t \in Threads :
        \/ do_GET(t)
        \/ TryAcquire(t)
        \/ RunSheets(t)
        \/ RunMeta(t)
        \/ RunBuild(t)
        \/ Respond(t)
        \/ Release(t)

Init ==
    /\ ServerIdle
    /\ BuildIdle
    /\ ParseIdle
    /\ ScriptsIdle

\* The threaded server handling /api/refresh requests.
Spec == Init /\ [][NextServer]_vars

\* What a handler thread does once its request has arrived. Each step ends:
\* acquire(blocking=False) does not wait and every subprocess.run has a timeout.
Handle(t) ==
    \/ TryAcquire(t)
    \/ RunSheets(t)
    \/ RunMeta(t)
    \/ RunBuild(t)
    \/ Respond(t)
    \/ Release(t)

\* The server with its handler threads scheduled: a thread that can take a step
\* of its handler eventually takes it. Requests need not arrive.
SpecLive == Spec /\ \A t \in Threads : WF_vars(Handle(t))

\* ========================================================== the inputs
SeqsUpTo(S, n) == UNION {[1..k -> S] : k \in 0..n}

Campana_A == <<"C", "a", "m", "p", "a", "ñ", "a", " ", "A">>
campana_a == <<"c", "a", "m", "p", "a", "ñ", "a", " ", "a">>
X__Y == <<" ", "X", " ", " ", "Y">>
x_y == <<"x", " ", "y">>
X___y == <<"X", " ", " ", " ", "y">>
REFERIDO == <<"R", "E", "F", "E", "R", "I", "D", "O">>
ene == <<"e", "n", "e">>
feb == <<"f", "e", "b">>
Ana == <<"A", "n", "a">>
video1 == <<"v", "1">>
P5M == <<"$", "5", ".", "0", "0", "0", ".", "0", "0", "0">>
P3M == <<"$", "3", ".", "0", "0", "0", ".", "0", "0", "0">>
P45M == <<"$", "4", "5", ".", "6", "2", "6", ".", "5", "0", "0">>
P0 == <<"$", "0">>
abc == <<"a", "b", "c">>

Action(type, value) == [action_type |-> type, value |-> value]

Ad(name, spend, actions) ==
    [campaign_name |-> name, spend |-> spend, actions |-> actions,
     cost_per_action_type |-> <<>>]

\* Campaign insight records: the scenario's campaign, the same campaign with
\* no spend, a campaign with no leads, and one with an empty name and
\* duplicate lead entries.
XrefAds ==
    {Ad(Campana_A, 1000000, <<Action("lead", 10)>>),
     Ad(Campana_A, 0, <<Action("lead", 10)>>),
     Ad(X__Y, 400000, <<>>),
     Ad(<<>>, 1000000,
        <<Action("link_click", 7), Action("lead", 4), Action("lead", 9)>>)}

\* A 13-column sheet row: Mes, Nombre, Asesor, Lote, contact day, closing day,
\* days to close, Fuente, Campana, Conjunto, Anuncio, campaign type, price.
Row(mes, nombre, dias, fuente, campana, anuncio, precio) ==
    <<mes, nombre, <<>>, <<"L", "1">>, <<>>, <<>>, dias, fuente, campana,
      <<>>, anuncio, <<>>, precio>>

HeaderRow == <<<<"M", "e", "s">>>>

Csv(rows) == <<HeaderRow>> \o rows

\* Sale rows for the cross-reference: all valid.
XrefRows ==
    {Row(ene, Ana, <<"1", "2">>, META, campana_a, video1, P5M),
     Row(feb, Ana, <<>>, META, campana_a, video1, P3M),
     Row(ene, Ana, <<"0">>, META, x_y, <<>>, <<>>),
     Row(ene, Ana, <<>>, REFERIDO, campana_a, <<>>, P3M),
     Row(feb, INMOBILIARIA, <<>>, META, X___y, video1, P0),
     Row(feb, Ana, <<>>, META, <<>>, <<>>, P5M)}

\* Sale rows for the loader: valid ones, and rows the loader must skip although
\* their other columns look like sales.
LoadRowsPool ==
    {Row(ene, Ana, <<"1", "2">>, META, campana_a, video1, P5M),
     Row(feb, INMOBILIARIA, <<>>, META, x_y, <<>>, abc),
     Row(feb, Ana, <<"x">>, REFERIDO, campana_a, video1, P3M) \o <<<<>>>>,
     SubSeq(Row(ene, Ana, <<"1", "2">>, META, campana_a, video1, P5M), 1, 12),
     Row(<<" ">>, Ana, <<"1", "2">>, META, campana_a, video1, P5M),
     Row(<<>>, Ana, <<"3">>, META, x_y, video1, P3M),
     <<>>}

\* The file left by an earlier sync.
StaleCsv == Csv(<<Row(ene, Ana, <<"7">>, META, campana_a, video1, P3M)>>)

\* The script about to start, with the files on disk and the sheet drawn from
\* the given sets.
BuildStartFrom(campaignFiles, dailyFiles, adsetFiles, sheets, ventasFiles, absent) ==
    /\ bpc = "sync"
    /\ sheet \in sheets
    /\ ventas_file \in ventasFiles
    /\ campaign_file \in campaignFiles
    /\ daily_file \in dailyFiles
    /\ adset_file \in adsetFiles
    /\ missing_json \in absent
    /\ sync_warning = FALSE
    /\ ventas_raw = <<>>
    /\ campaign_raw = <<>>
    /\ daily_raw = <<>>
    /\ adset_raw = <<>>
    /\ campaigns = <<>>
    /\ kpis = EmptyDict
    /\ daily_agg = EmptyDict
    /\ daily_series = <<>>
    /\ adsets = <<>>
    /\ totals = EmptyDict
    /\ ventas_by_source = EmptyDict
    /\ ventas_by_month = EmptyDict
    /\ meta_ventas_by_campaign = EmptyDict
    /\ meta_ventas_by_asesor = EmptyDict
    /\ meta_ventas_by_creative = EmptyDict
    /\ campaign_roas = <<>>
    /\ roas_rows = <<>>

\* The script about to start with its three JSON files in place.
BuildStart(campaignFiles, dailyFiles, adsetFiles, sheets, ventasFiles) ==
    BuildStartFrom(campaignFiles, dailyFiles, adsetFiles, sheets, ventasFiles, {{}})

InitBuildWith(ads, rows, maxAds) ==
    /\ ServerIdle
    /\ ParseIdle
    /\ ScriptsIdle
    /\ BuildStart(SeqsUpTo(ads, maxAds), {<<>>}, {<<>>},
                  {Csv(rs) : rs \in SeqsUpTo(rows, MaxRows)}, {Missing, StaleCsv})

InitBuild == InitBuildWith(XrefAds, XrefRows, MaxCamps)

\* One run of build_dashboard.py over campaign and sales inputs chosen for
\* the cross-reference.
SpecBuild == InitBuild /\ [][NextBuild]_vars

InitLoad ==
    InitBuildWith({Ad(Campana_A, 1000000, <<Action("lead", 10)>>)}, LoadRowsPool, 1)

\* One run of build_dashboard.py over sheets that contain unusable rows.
SpecLoad == InitLoad /\ [][NextBuild]_vars

\* The characters price cells are drawn from.
ParseChars == {" ", "$", ".", ",", "0", "5", "a", "-"}

ParseInputs ==
    SeqsUpTo(ParseChars, MaxStrLen) \cup {P45M, P5M, P0, abc}

NotParsed == EmptyDict

\* A price cell goes through parse_cop_value (build_dashboard.py) and through
\* parse_cop (analyze_ventas.py).
ParseCell ==
    /\ parsed = NotParsed
    /\ parsed' = [build |-> parse_cop_value(cell), analyze |-> parse_cop(cell)]
    /\ UNCHANGED cell
    /\ UNCHANGED <<serverVars, buildVars, scriptVars>>

InitParse ==
    /\ ServerIdle
    /\ BuildIdle
    /\ ScriptsIdle
    /\ cell \in ParseInputs
    /\ parsed = NotParsed

NextParse == ParseCell

\* Every bounded cell text, parsed once.
SpecParse == InitParse /\ [][NextParse]_vars

\* ---------------------------------------- inputs of the three sales scripts
MaxDaily == 4
MaxTokens == 3

Luis == <<"L", "u", "i", "s">>

\* A sheet row with two more columns, and a sheet row with its advisor column.
Wide(r) == r \o <<<<>>, <<>>>>
WithAsesor(r, asesor) == [r EXCEPT ![3] = asesor]

\* Sale rows for the three scripts: valid rows of 15 and of 13 columns, days to
\* close written as "12", "0", "-3", "" and a superscript, advisors that differ
\* from the name column, the placeholder in either column, a sale without
\* source, and the rows every script skips.
ScriptRows ==
    {Wide(WithAsesor(Row(ene, Ana, <<"1", "2">>, META, campana_a, video1, P5M), Luis)),
     WithAsesor(Row(ene, Ana, <<"0">>, META, x_y, <<>>, <<>>), Ana),
     Wide(WithAsesor(Row(feb, INMOBILIARIA, <<"-", "3">>, META, campana_a, video1, abc),
                     Luis)),
     Wide(Row(feb, Luis, <<>>, REFERIDO, <<>>, <<>>, P3M)),
     SubSeq(Row(ene, Ana, <<"5">>, META, campana_a, video1, P5M), 1, 12),
     Wide(Row(<<" ">>, Ana, <<"5">>, META, campana_a, video1, P5M)),
     Wide(Row(feb, Ana, <<"²">>, META, campana_a, video1, P3M)),
     Wide(WithAsesor(Row(feb, Ana, <<" ", "7">>, META, campana_a, <<>>, P0),
                     INMOBILIARIA)),
     Wide(Row(ene, Luis, <<>>, <<" ">>, <<>>, <<>>, P5M))}

InitScripts ==
    /\ ServerIdle
    /\ ParseIdle
    /\ apc = "load"
    /\ analyze_rows = <<>>
    /\ analyze_meta = EmptyDict
    /\ analyze_summary = EmptyDict
    /\ upc = "load"
    /\ audit_rows = <<>>
    /\ audit_counts = EmptyDict
    /\ creativos = EmptyDict
    /\ FetchIdle
    /\ BuildStart({<<>>}, {<<>>}, {<<>>},
                  {Csv(rs) : rs \in SeqsUpTo(ScriptRows, MaxRows)}, {Missing})

\* One run of each of build_dashboard.py, analyze_ventas.py and
\* audit_ventas.py, in any interleaving, over the same sheet.
SpecScripts == InitScripts /\ [][NextScripts]_vars

\* ------------------------------------------------- inputs of the ad metrics
Day1 == <<"2", "0", "2", "6", "-", "0", "1", "-", "3", "0">>
Day2 == <<"2", "0", "2", "6", "-", "0", "1", "-", "3", "1">>
Day3 == <<"2", "0", "2", "6", "-", "0", "2", "-", "0", "1">>
Day4 == <<"2", "0", "2", "6", "-", "0", "2", "-", "0", "2">>

\* Insight records for the lead count and the cost per lead: the scenario's
\* record, one without actions and costs, one with duplicate entries and a
\* reported cost, and one with an empty action list.
AdsPool ==
    {[campaign_name |-> Campana_A, spend |-> 100000,
      actions |-> <<Action("lead", 5)>>, cost_per_action_type |-> <<>>],
     [campaign_name |-> X__Y, spend |-> 100000],
     [campaign_name |-> abc, spend |-> 100000,
      actions |-> <<Action("link_click", 7), Action("lead", 4), Action("lead", 9)>>,
      cost_per_action_type |->
          <<Action("link_click", 12), Action("lead", 30000), Action("lead", 1)>>],
     [campaign_name |-> abc, spend |-> 90000, actions |-> <<>>,
      cost_per_action_type |-> <<Action("link_click", 12)>>]}

AdsetPool ==
    {[campaign_name |-> Campana_A, adset_name |-> abc, spend |-> 100000,
      actions |-> <<Action("lead", 5)>>,
      cost_per_action_type |-> <<Action("lead", 0)>>],
     [campaign_name |-> X__Y, adset_name |-> x_y, spend |-> 100000,
      actions |-> <<Action("link_click", 7)>>],
     [adset_name |-> abc, spend |-> 50,
      actions |-> <<Action("lead", 4), Action("lead", 9)>>,
      cost_per_action_type |-> <<Action("lead", 30000)>>]}

DailyRow(date, name, spend, impressions, clicks, actions) ==
    [date_start |-> date, campaign_name |-> name, spend |-> spend,
     impressions |-> impressions, clicks |-> clicks, actions |-> actions]

\* Daily rows in file order (not by date): spend on the oldest date only,
\* dates without spend, two rows of one date, and counters whose ratios need
\* rounding.
DailyPool ==
    <<DailyRow(Day3, X__Y, 70, 8, 1, <<Action("lead", 2), Action("lead", 9)>>),
      DailyRow(Day1, Campana_A, 500, 3, 1, <<Action("lead", 1)>>),
      DailyRow(Day4, X__Y, 0, 32, 1, <<>>),
      [date_start |-> Day2, campaign_name |-> Campana_A],
      DailyRow(Day4, Campana_A, 0, 0, 0, <<>>)>>

DailyFiles ==
    {SelectSeq(DailyPool, LAMBDA r : r \in S) :
        S \in {T \in SUBSET {DailyPool[i] : i \in DOMAIN DailyPool} :
                  Cardinality(T) <= MaxDaily}}

InitAds ==
    /\ ServerIdle
    /\ ParseIdle
    /\ ScriptsIdle
    /\ BuildStart(SeqsUpTo(AdsPool, MaxCamps), {<<>>, SubSeq(DailyPool, 1, 2)},
                  SeqsUpTo(AdsetPool, MaxCamps), {Csv(<<>>)}, {Missing})

\* One run of build_dashboard.py over campaign and ad set insight records.
SpecAds == InitAds /\ [][NextBuild]_vars

\* Campaign records with counters and the platform's own ratios: ratios that
\* agree with the counters, ratios that do not, and no impressions at all.
DailyCamps ==
    {[campaign_name |-> Campana_A, spend |-> 100000, impressions |-> 2000,
      clicks |-> 50, ctr |-> Rat(5, 2), cpm |-> Num(50000),
      actions |-> <<Action("lead", 5)>>],
     [campaign_name |-> X__Y, spend |-> 70, impressions |-> 3000, clicks |-> 1,
      ctr |-> Num(7)],
     [campaign_name |-> abc, spend |-> 0]}

InitDaily ==
    /\ ServerIdle
    /\ ParseIdle
    /\ ScriptsIdle
    /\ BuildStart(SeqsUpTo(DailyCamps, MaxCamps), DailyFiles, {<<>>},
                  {Csv(<<>>)}, {Missing})

\* One run of build_dashboard.py over daily insight rows.
SpecDaily == InitDaily /\ [][NextBuild]_vars

\* Pieces of campaign names: the markers in mixed case, a near miss and filler.
NameTokens ==
    {<<"t", "r", "a", "f">>, <<"R", "e", "c", "o", "n">>, <<"M", "E", "N", "S", "A", "J", "E", "S">>, <<"F", "o", "r", "m">>, <<"l", "e", "a", "d">>, <<"t", "r", "a">>, <<"x", " ">>}

RECURSIVE Concat(_)
Concat(ts) == IF ts = <<>> THEN <<>> ELSE Head(ts) \o Concat(Tail(ts))

InitObjective ==
    /\ ServerIdle
    /\ ParseIdle
    /\ ScriptsIdle
    /\ BuildStart({<<[campaign_name |-> Concat(ts), spend |-> 0]>> :
                      ts \in SeqsUpTo(NameTokens, MaxTokens)},
                  {<<>>}, {<<>>}, {Csv(<<>>)}, {Missing})

\* One run of build_dashboard.py over one campaign, for every bounded name.
SpecObjective == InitObjective /\ [][NextBuild]_vars

\* ------------------------------------------------- inputs of the fetches
\* Ages of the cached file, in seconds, on both sides of CACHE_MAX_AGE.
CacheAges == {0, CACHE_MAX_AGE - 1, CACHE_MAX_AGE, 2 * CACHE_MAX_AGE}

InitFetch ==
    /\ ServerIdle
    /\ BuildIdle
    /\ ParseIdle
    /\ apc = "off"
    /\ analyze_rows = <<>>
    /\ analyze_meta = EmptyDict
    /\ analyze_summary = EmptyDict
    /\ upc = "off"
    /\ audit_rows = <<>>
    /\ audit_counts = EmptyDict
    /\ creativos = EmptyDict
    /\ spc = "main"
    /\ sync_argv \in {SheetsArgv, AutoSyncArgv}
    /\ csv \in {NoCsv} \cup {CachedCsv(a) : a \in CacheAges}
    /\ csv_found = csv
    /\ sync_response = "none"
    /\ sync_exit = -1
    /\ mpc = 1
    /\ meta_results = <<>>
    /\ meta_files = [f \in {MetaFetches[i] : i \in DOMAIN MetaFetches} |-> "old"]
    /\ meta_ok = TRUE
    /\ meta_exit = -1

\* One run of sync_ventas.py and one run of refresh_meta.py.
SpecFetch == InitFetch /\ [][NextFetch]_vars

\* ----------------------------------------------- inputs that may be absent
InitMissing ==
    /\ ServerIdle
    /\ ParseIdle
    /\ ScriptsIdle
    /\ BuildStartFrom({<<>>, <<Ad(Campana_A, 1000000, <<Action("lead", 10)>>)>>},
                      {<<>>, <<DailyRow(Day1, Campana_A, 500, 3, 1, <<>>)>>},
                      {<<>>},
                      {Csv(<<>>), StaleCsv},
                      {Missing, StaleCsv},
                      SUBSET {JsonFiles[i] : i \in DOMAIN JsonFiles})
    /\ "campaign" \in missing_json => campaign_file = <<>>
    /\ "daily" \in missing_json => daily_file = <<>>
    /\ "adset" \in missing_json => adset_file = <<>>

\* One run of build_dashboard.py in a directory where any of its input files
\* may not exist.
SpecMissing == InitMissing /\ [][NextBuild]_vars

\* ------------------------------------------------------ claims on server.py

InBody(t) == pc[t] \in {"sheets", "meta", "build", "respond", "release"}

\* C1: at any time at most one request thread is inside the rebuild body
\* (between a successful lock acquire and the release), and it is the thread
\* recorded as the lock's holder.
C1_MutualExclusion ==
    /\ Cardinality({t \in Threads : InBody(t)}) <= 1
    /\ \A t \in Threads : InBody(t) => lock = t

\* Witness for C1: one thread is running a refresh step while another request
\* has arrived and is about to test the lock.
C1_Witness ==
    \E t, u \in Threads : t # u /\ pc[t] = "meta" /\ pc[u] = "try"

\* C2: a request that tests the lock while another refresh holds it is, in its
\* very next step, finished with a 409 / ok=false answer and without having
\* started any refresh step; once rejected, it starts no step later either
\* (the thread's only further move is to serve a new request).
C2_RejectedImmediately ==
    [][\A t \in Threads :
          /\ (pc[t] = "try" /\ lock # 0 /\ pc'[t] # pc[t]) =>
                /\ pc'[t] = "done"
                /\ resp'[t].status = 409
                /\ resp'[t].ok = FALSE
                /\ ran'[t] = <<>>
          /\ (pc[t] = "done" /\ resp[t].status = 409) =>
                /\ ran'[t] = <<>>
                /\ pc'[t] \in {"done", "try"}]_vars

\* Witness for C2: a request has been rejected with 409 while the refresh that
\* holds the lock is still running its build step.
C2_Witness ==
    \E t, u \in Threads :
        /\ t # u
        /\ pc[t] = "build" /\ lock = t
        /\ pc[u] = "done" /\ resp[u].status = 409 /\ ran[u] = <<>>

\* C3: within an accepted refresh the steps run in the order sheets, meta,
\* build whatever the earlier steps' outcomes were: a refresh that is at a
\* later step has started every earlier one, and a refresh that answers has
\* started all three.
C3_StepsAlwaysRun ==
    \A t \in Threads :
        /\ pc[t] = "sheets" => ran[t] = <<>>
        /\ pc[t] = "meta" => ran[t] = <<"sheets">>
        /\ pc[t] = "build" => ran[t] = <<"sheets", "meta">>
        /\ pc[t] \in {"respond", "release"} =>
              /\ ran[t] = Steps
              /\ Len(outcome[t]) = 3

\* Witness for C3: the sheet sync timed out and the Meta fetch exited non-zero,
\* no data file was refreshed, and the build step was still run.
C3_Witness ==
    \E t \in Threads :
        /\ pc[t] = "respond"
        /\ outcome[t][1] = "timeout" /\ outcome[t][2] = "nonzero"
        /\ ran[t] = Steps
        /\ disk["ventas_2026.csv"] = "old" /\ disk["meta_json"] = "old"

\* --------------------------------------------- claims on build_dashboard.py

Built == bpc \in {"rows", "done"}

\* The sale rows of the file the run loaded (the header is not one).
FileRows == IF ventas_file = Missing THEN <<>> ELSE Tail(ventas_file)

\* The join key as the specification words it: trim, lowercase, then every
\* pair of adjacent spaces becomes one space, left to right.
RECURSIVE CollapsePairs(_)
CollapsePairs(s) ==
    IF Len(s) < 2 THEN s
    ELSE IF s[1] = " " /\ s[2] = " "
         THEN <<" ">> \o CollapsePairs(SubSeq(s, 3, Len(s)))
         ELSE <<s[1]>> \o CollapsePairs(Tail(s))

ClaimKey(name) == CollapsePairs(Lower(Strip(name)))

RECURSIVE SumOver(_, _)
SumOver(S, f) ==
    IF S = {} THEN Zero
    ELSE LET x == CHOOSE y \in S : TRUE
         IN  RAdd(f[x], SumOver(S \ {x}, f))

\* The loaded sale records a campaign name is matched with: META records whose
\* campaign name has the same, non-empty, join key.
Matching(name) ==
    {i \in DOMAIN ventas_raw :
        /\ ventas_raw[i].fuente = META
        /\ ClaimKey(ventas_raw[i].campana) = ClaimKey(name)
        /\ ClaimKey(name) # <<>>}

\* The loaded sale records of any source with the join key of a campaign name.
SameKey(name) ==
    {i \in DOMAIN ventas_raw : ClaimKey(ventas_raw[i].campana) = ClaimKey(name)}

Injective(f) == \A a, b \in DOMAIN f : f[a] = f[b] => a = b

\* The value an action list gives for a type, as the specification words it:
\* the value of the first entry of that type, 0 when there is none.
ClaimFirst(entries, type) ==
    LET hits == {i \in DOMAIN entries : entries[i].action_type = type}
    IN  IF hits = {} THEN 0
        ELSE entries[CHOOSE i \in hits : \A j \in hits : i <= j].value

ClaimLeads(c) == ClaimFirst(c.actions, "lead")

\* C4: the cross-reference has exactly one row per ad campaign record, each
\* with that campaign's name, spend and leads (the rows are a reordering of the
\* campaigns), and no row belongs to a campaign name found only in the sales.
C4_OneRowPerCampaign ==
    Built =>
        /\ Len(campaign_roas) = Len(campaign_file)
        /\ \E f \in [DOMAIN campaign_file -> DOMAIN campaign_roas] :
              /\ Injective(f)
              /\ \A i \in DOMAIN campaign_file :
                    /\ campaign_roas[f[i]].name = campaign_file[i].campaign_name
                    /\ campaign_roas[f[i]].spend = campaign_file[i].spend
                    /\ campaign_roas[f[i]].leads = ClaimLeads(campaign_file[i])
        /\ \A k \in DOMAIN meta_ventas_by_campaign :
              (\A i \in DOMAIN campaign_file :
                    ClaimKey(campaign_file[i].campaign_name) # k)
              => \A j \in DOMAIN campaign_roas : ClaimKey(campaign_roas[j].name) # k

\* Witness for C4: two ad campaigns were cross-referenced, one of them without
\* sales, while the sales hold a campaign name no ad campaign has.
C4_Witness ==
    /\ bpc = "done"
    /\ Len(campaign_roas) = 2
    /\ \E j \in DOMAIN campaign_roas : campaign_roas[j].ventas = 0
    /\ \E k \in DOMAIN meta_ventas_by_campaign :
          \A i \in DOMAIN campaign_file : ClaimKey(campaign_file[i].campaign_name) # k

\* The end-to-end scenario's inputs: the one ad record, and two sale records
\* of campaign "campaña a" priced 5000000 and 3000000.
ScenarioAds ==
    campaign_file = <<Ad(Campana_A, 1000000, <<Action("lead", 10)>>)>>

ScenarioSales ==
    /\ Len(ventas_raw) = 2
    /\ \A i \in DOMAIN ventas_raw : ventas_raw[i].campana = campana_a
    /\ {ventas_raw[i].precio : i \in DOMAIN ventas_raw} = {Num(5000000), Num(3000000)}

ScenarioRow ==
    /\ Len(campaign_roas) = 1
    /\ campaign_roas[1].name = Campana_A
    /\ campaign_roas[1].leads = 10
    /\ campaign_roas[1].ventas = 2
    /\ campaign_roas[1].revenue = Num(8000000)
    /\ campaign_roas[1].roas = Num(8)
    /\ campaign_roas[1].cost_per_sale = Num(500000)
    /\ campaign_roas[1].conversion_rate = Num(20)

\* C5 as stated: with the scenario's ad record and two sale records of
\* campaign "campaña a" priced 5000000 and 3000000, the row of "Campaña A" has
\* leads=10, ventas=2, revenue=8000000, roas=8, cost_per_sale=500000,
\* conversion_rate=20.
C5_ScenarioAnySource ==
    (Built /\ ScenarioAds /\ ScenarioSales) => ScenarioRow

\* C5 as amended: the same, for two sale records whose source is META.
C5_ScenarioMeta ==
    (Built /\ ScenarioAds /\ ScenarioSales
           /\ \A i \in DOMAIN ventas_raw : ventas_raw[i].fuente = META)
    => ScenarioRow

\* Witness for C5: the scenario has been run to the end with META sales.
C5_Witness ==
    /\ bpc = "done" /\ ScenarioAds /\ ScenarioSales
    /\ \A i \in DOMAIN ventas_raw : ventas_raw[i].fuente = META
    /\ ScenarioRow

\* The rendered table shows the rows with spend, in the order of campaign_roas.
Shown == SelectSeq(campaign_roas, LAMBDA cr : cr.spend # 0)

\* C6: a campaign with spend > 0 and no matching sale record gets ventas=0,
\* revenue=0, roas=0 and a "-" revenue cell; a campaign with spend > 0 whose
\* matching sale records all have price 0 gets ventas=N>0, revenue=0 and a
\* "Pendiente" revenue cell: the two differ in ventas and in the cell.
C6_NoSalesVersusPending ==
    bpc = "done" =>
        /\ Len(roas_rows) = Len(Shown)
        /\ \A i \in DOMAIN Shown :
              LET cr == Shown[i]
                  m == Matching(cr.name)
              IN  /\ (cr.spend > 0 /\ m = {}) =>
                        /\ cr.ventas = 0 /\ cr.revenue = Zero /\ cr.roas = Zero
                        /\ roas_rows[i].rev_d = <<"-">>
                  /\ (cr.spend > 0 /\ m # {}
                        /\ \A j \in m : ventas_raw[j].precio = Zero) =>
                        /\ cr.ventas = Cardinality(m) /\ cr.ventas > 0
                        /\ cr.revenue = Zero
                        /\ roas_rows[i].rev_d = <<"Pendiente">>

\* Witness for C6: the rendered table holds a campaign without sales and a
\* campaign whose only sales have no price.
C6_Witness ==
    /\ bpc = "done"
    /\ \E i, j \in DOMAIN roas_rows :
          /\ roas_rows[i].ventas = 0 /\ roas_rows[i].rev_d = <<"-">>
          /\ roas_rows[j].ventas > 0 /\ roas_rows[j].rev_d = <<"Pendiente">>

\* C7: computing the rows never raises a division error, and in every row roas
\* is 0 when spend is 0, conversion_rate is 0 when leads is 0 and
\* cost_per_sale is 0 when the sale count is 0.
C7_RatiosTotal ==
    /\ bpc # "crashed"
    /\ Built =>
          \A i \in DOMAIN campaign_roas :
              LET cr == campaign_roas[i]
              IN  /\ ~IsError(cr.roas)
                  /\ ~IsError(cr.conversion_rate)
                  /\ ~IsError(cr.cost_per_sale)
                  /\ cr.spend = 0 => cr.roas = Zero
                  /\ cr.leads = 0 => cr.conversion_rate = Zero
                  /\ cr.ventas = 0 => cr.cost_per_sale = Zero

\* Witness for C7: rows were computed for a campaign with sales and no spend,
\* and for a campaign with sales and no leads.
C7_Witness ==
    /\ bpc = "done"
    /\ \E i, j \in DOMAIN campaign_roas :
          /\ campaign_roas[i].spend = 0 /\ campaign_roas[i].ventas > 0
          /\ campaign_roas[j].leads = 0 /\ campaign_roas[j].ventas > 0

\* C8 as stated: a campaign's row carries every sale record whose campaign
\* name has the same join key (trim, lowercase, pairs of spaces collapsed) as
\* the ad campaign's name.
C8_JoinAnySale ==
    Built =>
        \A i \in DOMAIN campaign_roas :
            campaign_roas[i].ventas = Cardinality(SameKey(campaign_roas[i].name))

\* C8 as amended: a campaign's row carries exactly the META sale records whose
\* campaign name has the same non-empty join key as the ad campaign's name,
\* with the sum of their prices; sales of other sources and sales with an empty
\* campaign name are in no campaign's row.
C8_JoinMetaSales ==
    Built =>
        \A i \in DOMAIN campaign_roas :
            LET m == Matching(campaign_roas[i].name)
            IN  /\ campaign_roas[i].ventas = Cardinality(m)
                /\ campaign_roas[i].revenue =
                      SumOver(m, [j \in m |-> ventas_raw[j].precio])

\* Witness for C8: the ad campaign " X  Y" (capitals, a leading space, a
\* doubled inner space) carries the META sale of campaign "x y".
C8_Witness ==
    /\ bpc = "done"
    /\ \E i \in DOMAIN campaign_roas :
          /\ campaign_roas[i].name = X__Y
          /\ campaign_roas[i].ventas > 0
          /\ \E j \in DOMAIN ventas_raw :
                ventas_raw[j].campana = x_y /\ ventas_raw[j].fuente = META

\* C10's row test as the specification words it: at least 13 columns and a
\* first field that is not empty or blank.
ClaimValid(r) ==
    /\ Len(r) >= 13
    /\ \E i \in DOMAIN r[1] : r[1][i] \notin Whitespace

RECURSIVE CountSum(_, _)
CountSum(d, field) ==
    IF DOMAIN d = {} THEN 0
    ELSE LET k == CHOOSE x \in DOMAIN d : TRUE
         IN  d[k][field] + CountSum([x \in DOMAIN d \ {k} |-> d[x]], field)

\* C10: the sale records are exactly the file's valid rows, one record per
\* valid row in file order, and every aggregate (total, by source, by month,
\* by campaign, by advisor, by creative) counts valid rows only: a row with
\* fewer than 13 columns or a blank first field is counted nowhere, whatever
\* its other columns hold.
C10_InvalidRowsExcluded ==
    bpc \in {"xref", "rows", "done"} =>
        LET valid == SelectSeq(FileRows, ClaimValid)
            fuente(i) == Strip(valid[i][8])
            meta == {i \in DOMAIN valid : fuente(i) = META}
        IN  /\ Len(ventas_raw) = Len(valid)
            /\ \A i \in DOMAIN valid :
                  /\ ventas_raw[i].mes = Strip(valid[i][1])
                  /\ ventas_raw[i].nombre = Strip(valid[i][2])
                  /\ ventas_raw[i].fuente = fuente(i)
                  /\ ventas_raw[i].campana = Strip(valid[i][9])
                  /\ ventas_raw[i].anuncio = Strip(valid[i][11])
            /\ totals.ventas_total_count = Len(valid)
            /\ \A k \in DOMAIN ventas_by_source :
                  ventas_by_source[k].count =
                      Cardinality({i \in DOMAIN valid : fuente(i) = k})
            /\ CountSum(ventas_by_source, "count") =
                  Cardinality({i \in DOMAIN valid : fuente(i) # <<>>})
            /\ \A k \in DOMAIN ventas_by_month :
                  ventas_by_month[k].total =
                      Cardinality({i \in DOMAIN valid : Strip(valid[i][1]) = k})
            /\ CountSum(ventas_by_month, "total") = Len(valid)
            /\ CountSum(ventas_by_month, "meta") = Cardinality(meta)
            /\ CountSum(meta_ventas_by_campaign, "count") =
                  Cardinality({i \in meta : ClaimKey(valid[i][9]) # <<>>})
            /\ CountSum(meta_ventas_by_asesor, "count") =
                  Cardinality({i \in meta :
                                  Strip(valid[i][2]) \notin {<<>>, INMOBILIARIA}})
            /\ CountSum(meta_ventas_by_creative, "count") =
                  Cardinality({i \in meta : Strip(valid[i][11]) # <<>>})

\* Witness for C10: the file held a valid row and a 13-column META row with a
\* blank first field, and the run loaded one record.
C10_Witness ==
    /\ bpc = "done"
    /\ Len(FileRows) = 2
    /\ Len(ventas_raw) = 1
    /\ \E i \in DOMAIN FileRows :
          /\ Len(FileRows[i]) >= 13
          /\ Strip(FileRows[i][1]) = <<>>
          /\ FileRows[i][8] = META

\* ------------------------------------------- claims on the currency parsers

\* What is left of a cell after removing whitespace, "$" and "." and
\* replacing "," with ".".
ClaimResidue(s) ==
    LET kept == SelectSeq(s, LAMBDA c : c \notin Whitespace \cup {"$", "."})
    IN  [i \in DOMAIN kept |-> IF kept[i] = "," THEN "." ELSE kept[i]]

\* A numeric text: an optional sign, then digits with at most one point and at
\* least one digit.
ClaimNumeric(s) ==
    LET b == IF s # <<>> /\ s[1] \in {"+", "-"} THEN Tail(s) ELSE s
    IN  /\ \E i \in DOMAIN b : IsDigit(b[i])
        /\ \A i \in DOMAIN b : IsDigit(b[i]) \/ b[i] = "."
        /\ Cardinality({i \in DOMAIN b : b[i] = "."}) <= 1

AllLoaded ==
    /\ bpc \notin {"sync", "load", "crashed"}
    /\ apc \in {"meta", "summary", "done", "crashed"}
    /\ upc \in {"report", "done"}

\* C11 as stated: the dashboard builder, the analysis script and the audit
\* script apply the same row test: every row of the file is kept by all three
\* or discarded by all three, so the three keep the same rows in the same
\* order.
C11_SameRowPredicate ==
    AllLoaded =>
        /\ analyze_rows = audit_rows
        /\ Len(ventas_raw) = Len(audit_rows)
        /\ \A i \in DOMAIN ventas_raw :
              /\ ventas_raw[i].mes = Strip(audit_rows[i][1])
              /\ ventas_raw[i].nombre = Strip(audit_rows[i][2])
              /\ ventas_raw[i].fuente = Strip(audit_rows[i][8])
              /\ ventas_raw[i].campana = Strip(audit_rows[i][9])

\* A text made of decimal digits only, and the number it writes.
ClaimDecimal(t) == t # <<>> /\ \A i \in DOMAIN t : t[i] \in {Digits[j] : j \in DOMAIN Digits}

\* The days to close of the valid META rows of the file whose trimmed column
\* is made of decimal digits, in file order.
ClaimMetaDias(rows) ==
    LET counted == SelectSeq(rows, LAMBDA r : Strip(r[8]) = META
                                              /\ ClaimDecimal(Strip(r[7])))
    IN  [i \in DOMAIN counted |-> DigitsVal(Strip(counted[i][7]))]

\* C12 as stated: a sale's days to close is an integer exactly when the
\* trimmed column is made of decimal digits only and is absent otherwise (no
\* row makes the load fail); the average and the median of the dashboard and
\* of the analysis script are taken over the rows with a value, a 0 included.
C12_DaysToClose ==
    LET valid == SelectSeq(FileRows, ClaimValid)
    IN  /\ bpc # "crashed"
        /\ bpc \in {"xref", "rows", "done"} =>
              /\ \A i \in DOMAIN ventas_raw :
                    IF ClaimDecimal(Strip(valid[i][7]))
                    THEN ventas_raw[i].dias_cierre = Some(DigitsVal(Strip(valid[i][7])))
                    ELSE IsNone(ventas_raw[i].dias_cierre)
              /\ totals.meta_dias = ClaimMetaDias(valid)
        /\ apc \in {"summary", "done"} =>
              analyze_meta.dias_cierre = ClaimMetaDias(analyze_rows)

\* C18 as stated: the per-advisor aggregate groups the META sale records by
\* their advisor: its keys are the advisors of the META records other than ""
\* and "INMOBILIARIA", each with the number of META records of that advisor,
\* so a record whose advisor is "INMOBILIARIA" is in no bucket.
C18_ByAdvisor ==
    bpc \in {"xref", "rows", "done"} =>
        LET of(a) == {i \in DOMAIN ventas_raw :
                         ventas_raw[i].fuente = META /\ ventas_raw[i].asesor = a}
            advisors == {ventas_raw[i].asesor : i \in DOMAIN ventas_raw}
        IN  /\ DOMAIN meta_ventas_by_asesor =
                  {a \in advisors : of(a) # {}} \ {<<>>, INMOBILIARIA}
            /\ \A a \in DOMAIN meta_ventas_by_asesor :
                  meta_ventas_by_asesor[a].count = Cardinality(of(a))

\* The text of a price cell that is handed to float(): trimmed, "$" and "."
\* removed, "," turned into ".", and trimmed again.
ClaimPriceText(val) ==
    LET kept == SelectSeq(Strip(val), LAMBDA c : c \notin {"$", "."})
    IN  Strip([i \in DOMAIN kept |-> IF kept[i] = "," THEN "." ELSE kept[i]])

\* A price cell without a price: its text is not a number, or is a number
\* written with zeros only.
ClaimUnpriced(val) ==
    \/ ~ClaimNumeric(ClaimPriceText(val))
    \/ \A i \in DOMAIN ClaimPriceText(val) :
          IsDigit(ClaimPriceText(val)[i]) => ClaimPriceText(val)[i] = "0"

\* The creative an audited row is counted under.
ClaimCreative(r) == IF Strip(r[11]) = <<>> THEN SinCreativo ELSE Strip(r[11])

\* C19: the audit never ends with an error once it has opened the file,
\* whatever the price column holds, and when it is done every creative's
\* bucket counts the valid META rows of that creative, with sin_precio the
\* number of those rows whose price is missing, so 0 <= sin_precio <= count.
C19_AuditAnnotates ==
    /\ upc \in {"load", "report", "done", "no_file"}
    /\ upc = "done" =>
          LET meta == {i \in DOMAIN FileRows :
                          /\ ClaimValid(FileRows[i])
                          /\ Strip(FileRows[i][8]) = META}
              of(k) == {i \in meta : ClaimCreative(FileRows[i]) = k}
          IN  /\ DOMAIN creativos = {ClaimCreative(FileRows[i]) : i \in meta}
              /\ \A k \in DOMAIN creativos :
                    /\ creativos[k].count = Cardinality(of(k))
                    /\ creativos[k].sin_precio =
                          Cardinality({i \in of(k) : ClaimUnpriced(FileRows[i][13])})
                    /\ 0 <= creativos[k].sin_precio
                    /\ creativos[k].sin_precio <= creativos[k].count
                    /\ ~IsError(creativos[k].revenue)

\* Witness for C19: the audit is done and one creative has two rows, one of
\* them with a price and one without.
C19_Witness ==
    /\ upc = "done"
    /\ \E k \in DOMAIN creativos :
          creativos[k].count = 2 /\ creativos[k].sin_precio = 1

RECURSIVE RatSum(_, _)
RatSum(d, field) ==
    IF DOMAIN d = {} THEN Zero
    ELSE LET k == CHOOSE x \in DOMAIN d : TRUE
         IN  RAdd(d[k][field], RatSum([x \in DOMAIN d \ {k} |-> d[x]], field))

\* C20: in the dashboard's month view the counts add up to the number of valid
\* rows of the file and the revenues to the total revenue, every valid row
\* being counted under its own month only; the analysis script's month view
\* adds up to its own row list in the same way.
C20_MonthsPartitionSales ==
    /\ bpc \in {"xref", "rows", "done"} =>
          LET valid == SelectSeq(FileRows, ClaimValid)
          IN  /\ CountSum(ventas_by_month, "total") = Len(valid)
              /\ CountSum(ventas_by_month, "total") = totals.ventas_total_count
              /\ RatSum(ventas_by_month, "revenue") = totals.ventas_total_revenue
              /\ \A k \in DOMAIN ventas_by_month :
                    ventas_by_month[k].total =
                        Cardinality({i \in DOMAIN valid : Strip(valid[i][1]) = k})
              /\ \A i \in DOMAIN valid : Strip(valid[i][1]) \in DOMAIN ventas_by_month
    /\ apc = "done" =>
          /\ CountSum(analyze_summary.all_por_mes, "count") = Len(analyze_rows)
          /\ RatSum(analyze_summary.all_por_mes, "valor") = SumValor(analyze_rows)
          /\ \A k \in DOMAIN analyze_summary.all_por_mes :
                analyze_summary.all_por_mes[k].count =
                    Cardinality({i \in DOMAIN analyze_rows :
                                    Strip(analyze_rows[i][1]) = k})

\* Witness for C20: both scripts are done with two valid rows of different
\* months, one of them not a META sale.
C20_Witness ==
    /\ bpc = "done"
    /\ apc = "done"
    /\ Cardinality(DOMAIN ventas_by_month) = 2
    /\ Cardinality(DOMAIN analyze_summary.all_por_mes) = 2
    /\ totals.ventas_total_count = 2
    /\ totals.meta_ventas_count = 1

\* --------------------------------------------- claims on the ad metrics

\* The list an insight record carries under a key, empty when it has none.
ClaimList(c, key) == IF key \in DOMAIN c THEN c[key] ELSE <<>>

\* C13: a campaign's lead and link-click counts are the value of the first
\* entry of that type in the record's action list, whatever entries of the
\* same type follow, and 0 when the list is empty, missing or has no such
\* entry; the reported cost per lead is read the same way.
C13_FirstMatch ==
    bpc = "status" =>
        \A i \in DOMAIN campaign_raw :
            LET actions == ClaimList(campaign_raw[i], "actions")
                costs == ClaimList(campaign_raw[i], "cost_per_action_type")
            IN  /\ campaigns[i].leads = ClaimFirst(actions, "lead")
                /\ campaigns[i].link_clicks = ClaimFirst(actions, "link_click")
                /\ ClaimFirst(costs, "lead") # 0 =>
                      campaigns[i].cpl = Num(ClaimFirst(costs, "lead"))

\* Witness for C13: a campaign whose actions hold two "lead" entries, 4 and
\* then 9, after an entry of another type, has 4 leads; a campaign without an
\* action list has 0.
C13_Witness ==
    /\ bpc = "status"
    /\ \E i, j \in DOMAIN campaign_raw :
          /\ "actions" \notin DOMAIN campaign_raw[i]
          /\ campaigns[i].leads = 0
          /\ Len(ClaimList(campaign_raw[j], "actions")) = 3
          /\ campaigns[j].leads = 4
          /\ campaigns[j].link_clicks = 7

\* The derived CPL of an insight record as the specification words it.
ClaimCpl(c) ==
    LET reported == ClaimFirst(ClaimList(c, "cost_per_action_type"), "lead")
        leads == ClaimFirst(ClaimList(c, "actions"), "lead")
    IN  IF reported # 0 THEN Num(reported)
        ELSE IF leads > 0 THEN Rat(c.spend, leads)
        ELSE Zero

\* C14: every campaign record and every ad set record has the reported cost per
\* lead as its CPL when that is not 0, else spend/leads when leads > 0, else 0,
\* and computing it never divides by zero; spend=100000, leads=5, reported=0
\* gives 20000 and spend=100000, leads=0, reported=0 gives 0.
C14_CplFallback ==
    /\ bpc # "crashed"
    /\ bpc = "status" =>
          \A i \in DOMAIN campaign_raw :
              /\ ~IsError(campaigns[i].cpl)
              /\ campaigns[i].cpl = ClaimCpl(campaign_raw[i])
              /\ (campaign_raw[i].spend = 100000 /\ campaigns[i].leads = 5
                    /\ ClaimFirst(ClaimList(campaign_raw[i], "cost_per_action_type"),
                                  "lead") = 0)
                 => campaigns[i].cpl = Num(20000)
              /\ (campaign_raw[i].spend = 100000 /\ campaigns[i].leads = 0
                    /\ ClaimFirst(ClaimList(campaign_raw[i], "cost_per_action_type"),
                                  "lead") = 0)
                 => campaigns[i].cpl = Zero
    /\ bpc \in {"ventas", "xref", "rows", "done"} =>
          /\ Len(adsets) = Len(adset_raw)
          /\ \A j \in DOMAIN adsets : ~IsError(adsets[j].cpl)
          /\ \A i \in DOMAIN adset_raw :
                \E j \in DOMAIN adsets :
                    /\ adsets[j].name = adset_raw[i].adset_name
                    /\ adsets[j].spend = adset_raw[i].spend
                    /\ adsets[j].cpl = ClaimCpl(adset_raw[i])

\* Witness for C14: the run holds a campaign with spend 100000, 5 leads and
\* CPL 20000, a campaign with spend 100000, no leads and CPL 0, and an ad set
\* whose CPL was computed from its spend and leads.
C14_Witness ==
    /\ bpc = "done"
    /\ \E i, j \in DOMAIN campaigns :
          /\ campaigns[i].spend = 100000 /\ campaigns[i].leads = 5
          /\ campaigns[i].cpl = Num(20000)
          /\ campaigns[j].spend = 100000 /\ campaigns[j].leads = 0
          /\ campaigns[j].cpl = Zero
    /\ \E k \in DOMAIN adsets :
          adsets[k].leads = 5 /\ adsets[k].cpl = Num(20000)

\* num/den x scale, 0 when den is 0.
ClaimRatio(num, den, scale) == IF den = 0 THEN Zero ELSE Rat(num * scale, den)

\* x is y rounded to a multiple of 1/units: a multiple no further than half a
\* unit from y.
ClaimRounded(x, y, units) ==
    LET diff == RAdd(x, [n |-> -y.n, d |-> y.d])
        dist == [n |-> Abs(diff.n), d |-> diff.d]
    IN  /\ RMul(x, Num(units)).d = 1
        /\ ~RLess(Rat(1, 2 * units), dist)

ClaimHasRatios(r) ==
    /\ r.ctr = ClaimRatio(r.clicks, r.impressions, 100)
    /\ r.cpm = ClaimRatio(r.spend, r.impressions, 1000)

ClaimDayTotal(date, field) ==
    LET on == {i \in DOMAIN daily_raw : daily_raw[i].date_start = date}
    IN  SumOver(on, [i \in on |->
                        Num(IF field \in DOMAIN daily_raw[i]
                            THEN daily_raw[i][field] ELSE 0)]).n

ClaimDateNum(d) == DigitsVal(SelectSeq(d, IsDigit))

\* The recent window as the specification words it: the dates of the daily
\* dataset that fewer than three of its dates come after.
ClaimWindow ==
    LET dates == {daily_raw[i].date_start : i \in DOMAIN daily_raw}
    IN  {d \in dates :
            Cardinality({e \in dates : ClaimDateNum(e) > ClaimDateNum(d)}) < 3}

ClaimSpendIn(dates, name) ==
    LET rows == {i \in DOMAIN daily_raw :
                    /\ daily_raw[i].campaign_name = name
                    /\ daily_raw[i].date_start \in dates}
    IN  SumOver(rows, [i \in rows |->
                          Num(IF "spend" \in DOMAIN daily_raw[i]
                              THEN daily_raw[i].spend ELSE 0)]).n

\* C17: a campaign is active exactly when its spend over the last three dates
\* of the daily dataset (all dates when there are fewer than three) is above
\* zero; spend on an earlier date does not count and a campaign without rows in
\* the window is inactive.
C17_ActiveByRecentSpend ==
    bpc \in {"kpis", "daily", "adsets", "ventas", "xref", "rows", "done"} =>
        /\ Len(campaigns) = Len(campaign_raw)
        /\ \A i \in DOMAIN campaigns :
              /\ campaigns[i].is_active = (ClaimSpendIn(ClaimWindow, campaigns[i].name) > 0)
              /\ ClaimSpendIn(ClaimWindow, campaigns[i].name) = 0 =>
                    ~campaigns[i].is_active

\* Witness for C17: the daily dataset has four dates; one campaign spent on
\* the oldest only and is inactive, another spent inside the window and is
\* active.
C17_Witness ==
    /\ bpc = "done"
    /\ Cardinality({daily_raw[i].date_start : i \in DOMAIN daily_raw}) = 4
    /\ \E i, j \in DOMAIN campaigns :
          /\ ~campaigns[i].is_active
          /\ \E k \in DOMAIN daily_raw :
                /\ daily_raw[k].campaign_name = campaigns[i].name
                /\ daily_raw[k].date_start \notin ClaimWindow
                /\ daily_raw[k].spend > 0
          /\ campaigns[j].is_active

\* The name contains the marker, letter case apart.
ClaimHas(name, marker) ==
    \E k \in 0..(Len(name) - Len(marker)) :
        \A j \in DOMAIN marker : LowerChar(name[k + j]) = LowerChar(marker[j])

ClaimTraffic(name) == ClaimHas(name, <<"t", "r", "a", "f">>)

ClaimAwareness(name) ==
    \/ ClaimHas(name, <<"r", "e", "c", "o", "n">>)
    \/ ClaimHas(name, <<"m", "e", "n", "s", "a", "j", "e", "s">>)

ClaimLeadsMarker(name) ==
    \/ ClaimHas(name, <<"f", "o", "r", "m">>)
    \/ ClaimHas(name, <<"l", "e", "a", "d">>)

\* C16: every campaign gets exactly one objective out of TRAFFIC, AWARENESS,
\* LEADS and OTHER, by the markers its name contains whatever their case: a
\* TRAFFIC marker wins over every other, an AWARENESS marker wins over a LEADS
\* marker, and a name without marker is OTHER.
C16_FirstMarkerWins ==
    bpc \in {"status", "kpis", "daily", "adsets", "ventas", "xref", "rows", "done"} =>
        /\ Len(campaigns) = Len(campaign_raw)
        /\ \A i \in DOMAIN campaigns :
              LET name == campaigns[i].name
                  objective == campaigns[i].objective
              IN  /\ objective \in {"TRAFFIC", "AWARENESS", "LEADS", "OTHER"}
                  /\ ClaimTraffic(name) => objective = "TRAFFIC"
                  /\ (ClaimAwareness(name) /\ ~ClaimTraffic(name)) =>
                        objective = "AWARENESS"
                  /\ (/\ ClaimLeadsMarker(name)
                      /\ ~ClaimTraffic(name)
                      /\ ~ClaimAwareness(name)) => objective = "LEADS"
                  /\ (/\ ~ClaimTraffic(name)
                      /\ ~ClaimAwareness(name)
                      /\ ~ClaimLeadsMarker(name)) => objective = "OTHER"

\* Witness for C16: a finished run whose campaign name holds a LEADS marker
\* before a lower-case TRAFFIC marker and was classified TRAFFIC.
C16_Witness ==
    /\ bpc = "done"
    /\ \E i \in DOMAIN campaigns :
          /\ ClaimLeadsMarker(campaigns[i].name)
          /\ ClaimTraffic(campaigns[i].name)
          /\ ~Contains(campaigns[i].name, TRAF)
          /\ campaigns[i].objective = "TRAFFIC"

\* --------------------------------------------- more claims on server.py

\* C25: the lock is released on every exit path of an accepted refresh: the
\* lock is only ever held by a thread that is inside the body, an accepted
\* refresh always comes to its end with the lock no longer its own, whatever
\* its steps' outcomes and whether or not the response could be written, and a
\* request that tests the lock when no refresh is in flight is accepted, not
\* answered 409.
C25_LockAlwaysReleased ==
    /\ [](\A t \in Threads : lock = t => InBody(t))
    /\ \A t \in Threads : InBody(t) ~> (pc[t] = "done" /\ lock # t)
    /\ [][\A t \in Threads :
             (/\ pc[t] = "try"
              /\ \A u \in Threads : ~InBody(u)
              /\ pc'[t] # pc[t]) =>
                 (pc'[t] = "sheets" /\ lock' = t /\ resp'[t].status # 409)]_vars

\* Witness for C25: a refresh whose steps failed and whose response could not
\* be written has finished, and a later request has been accepted.
C25_Witness ==
    \E t, u \in Threads :
        /\ t # u
        /\ pc[t] = "done" /\ resp[t].status = 200 /\ ~resp[t].sent /\ ~resp[t].ok
        /\ pc[u] = "sheets" /\ lock = u

\* C26: a rejected request changes nothing: the step that answers 409 leaves
\* the lock, the data files, every thread's started steps and outcomes and
\* every other thread untouched, and the rejected thread does not touch the
\* lock afterwards either, so the refresh in flight stays the holder.
C26_RejectionChangesNothing ==
    [][\A t \in Threads :
          /\ (pc[t] = "try" /\ lock # 0 /\ pc'[t] # pc[t]) =>
                /\ lock' = lock
                /\ InBody(lock)'
                /\ disk' = disk
                /\ ran' = ran /\ outcome' = outcome /\ overall_ok' = overall_ok
                /\ \A u \in Threads \ {t} : pc'[u] = pc[u] /\ resp'[u] = resp[u]
          /\ (pc[t] = "done" /\ resp[t].status = 409 /\ pc'[t] # pc[t]) =>
                (lock' = lock /\ disk' = disk)]_vars

\* Witness for C26: a request was rejected while the refresh in flight, which
\* has already rewritten the sheet export, is at its Meta step and holds the lock.
C26_Witness ==
    \E t, u \in Threads :
        /\ t # u
        /\ pc[u] = "done" /\ resp[u].status = 409
        /\ pc[t] = "meta" /\ lock = t
        /\ disk["ventas_2026.csv"] = "new"

\* C27: an accepted refresh answers 200 with ok=true exactly when the sheet
\* sync and the build both exited with code 0; how the Meta step ended does not
\* enter into it.
C27_OkIffSheetsAndBuild ==
    \A t \in Threads :
        pc[t] = "release" =>
            /\ resp[t].status = 200
            /\ resp[t].ok = (outcome[t][1] = "rc0" /\ outcome[t][3] = "rc0")

\* Witness for C27: a refresh answered ok=true although its Meta step timed out.
C27_Witness ==
    \E t \in Threads :
        /\ pc[t] = "release"
        /\ resp[t].ok /\ resp[t].sent
        /\ outcome[t] = <<"rc0", "timeout", "rc0">>

\* --------------------------------------------- claims on absent inputs

\* C21: every loader of the pipeline yields an empty record set when its input
\* file does not exist, and the run goes on to the aggregation stages: the run
\* never ends at the load, and once past it a missing sheet export has given no
\* sale records and a missing JSON file no ad records.
C21_MissingFilesTolerated ==
    /\ bpc # "crashed"
    /\ bpc \notin {"sync", "load"} =>
          /\ ventas_file = Missing => ventas_raw = <<>>
          /\ "campaign" \in missing_json => campaign_raw = <<>>
          /\ "daily" \in missing_json => daily_raw = <<>>
          /\ "adset" \in missing_json => adset_raw = <<>>

\* C22: no input makes the aggregation stages abort: neither the builder nor
\* the analysis script ends in its aggregation, and over a sale set that is
\* empty or holds no META row every META statistic of the builder (count,
\* revenue, average ticket, average and median days to close, account ROAS) is
\* 0 and its META aggregates are empty; over an empty sale set the totals are 0
\* and every aggregate is empty.
C22_AggregationNeverAborts ==
    /\ apc # "crashed"
    /\ bpc = "crashed" => load_ventas_raises(ventas_file)
    /\ (/\ bpc \in {"xref", "rows", "done"}
        /\ \A i \in DOMAIN ventas_raw : ventas_raw[i].fuente # META) =>
          /\ totals.meta_ventas_count = 0
          /\ totals.meta_ventas_revenue = Zero
          /\ totals.meta_avg_ticket = Zero
          /\ totals.meta_avg_dias = Zero
          /\ totals.meta_median_dias = 0
          /\ totals.roas = Zero
          /\ DOMAIN meta_ventas_by_campaign = {}
          /\ DOMAIN meta_ventas_by_asesor = {}
          /\ DOMAIN meta_ventas_by_creative = {}
          /\ ventas_raw = <<>> =>
                /\ totals.ventas_total_count = 0
                /\ totals.ventas_total_revenue = Zero
                /\ DOMAIN ventas_by_source = {}
                /\ DOMAIN ventas_by_month = {}

\* --------------------------------------------- claims on the aggregates

\* The records of rs (a sequence) whose label, given by label(_), is k.
ClaimWith(rs, label(_), k) == {i \in DOMAIN rs : label(rs[i]) = k}

ClaimSourceOfRecord(v) == v.fuente
ClaimSourceOfRow(r) == Strip(r[8])

\* C24: the per-source aggregate has one bucket for each non-empty source
\* label that occurs and none for the empty label; a bucket holds the number
\* and the price sum of exactly the records with its label, so the counts add
\* up to the number of records less those without source. It holds of the
\* dashboard's aggregate over its sale records and of the analysis script's
\* over its row list.
C24_BySourceBuckets ==
    /\ bpc \in {"xref", "rows", "done"} =>
          /\ DOMAIN ventas_by_source =
                {ventas_raw[i].fuente : i \in DOMAIN ventas_raw} \ {<<>>}
          /\ \A k \in DOMAIN ventas_by_source :
                LET with == ClaimWith(ventas_raw, ClaimSourceOfRecord, k)
                IN  /\ ventas_by_source[k].count = Cardinality(with)
                    /\ ventas_by_source[k].revenue =
                          SumOver(with, [i \in with |-> ventas_raw[i].precio])
          /\ CountSum(ventas_by_source, "count") =
                Len(ventas_raw)
                    - Cardinality(ClaimWith(ventas_raw, ClaimSourceOfRecord, <<>>))
    /\ apc = "done" =>
          LET fuentes == analyze_summary.fuentes
          IN  /\ DOMAIN fuentes =
                    {ClaimSourceOfRow(analyze_rows[i]) : i \in DOMAIN analyze_rows}
                        \ {<<>>}
              /\ \A k \in DOMAIN fuentes :
                    LET with == ClaimWith(analyze_rows, ClaimSourceOfRow, k)
                    IN  /\ fuentes[k].count = Cardinality(with)
                        /\ fuentes[k].valor =
                              SumOver(with,
                                      [i \in with |-> parse_cop(analyze_rows[i][13])])
              /\ CountSum(fuentes, "count") =
                    Len(analyze_rows)
                        - Cardinality(ClaimWith(analyze_rows, ClaimSourceOfRow, <<>>))

\* Witness for C24: both scripts are done over a META sale and a sale whose
\* source is blank; each has the one META bucket and two records.
C24_Witness ==
    /\ bpc = "done"
    /\ apc = "done"
    /\ Len(ventas_raw) = 2 /\ Len(analyze_rows) = 2
    /\ DOMAIN ventas_by_source = {META}
    /\ ventas_by_source[META].count = 1
    /\ DOMAIN analyze_summary.fuentes = {META}
    /\ \E i \in DOMAIN ventas_raw : ventas_raw[i].fuente = <<>>

\* C28: every sale is attributed to at most one cross-reference row: the
\* ventas of the rows add up to no more than the number of META sale records
\* with a campaign name, and their revenues to no more than the META revenue.
C28_SalesCountedOnce ==
    Built =>
        LET rows == DOMAIN campaign_roas
            named == {i \in DOMAIN ventas_raw :
                         ventas_raw[i].fuente = META /\ ventas_raw[i].campana # <<>>}
        IN  /\ SumOver(rows, [i \in rows |-> Num(campaign_roas[i].ventas)]).n
                  <= Cardinality(named)
            /\ ~RLess(totals.meta_ventas_revenue,
                      SumOver(rows, [i \in rows |-> campaign_roas[i].revenue]))

\* C29: normalizing a campaign name twice gives what normalizing it once
\* gives, for every campaign name of the ads and of the sales; so the keys of
\* the sales aggregate, which are normalized names, are left as they are by
\* normalizing them again.
C29_NormalizeIdempotent ==
    Built =>
        /\ \A i \in DOMAIN campaigns :
              normalize_camp_name(normalize_camp_name(campaigns[i].name)) =
                  normalize_camp_name(campaigns[i].name)
        /\ \A i \in DOMAIN ventas_raw :
              normalize_camp_name(normalize_camp_name(ventas_raw[i].campana)) =
                  normalize_camp_name(ventas_raw[i].campana)
        /\ \A k \in DOMAIN meta_ventas_by_campaign : normalize_camp_name(k) = k

\* --------------------------------------------- claims on the fetches

\* C23: the sheet sync downloads whenever --force is given; without it, it
\* downloads exactly when the cached file is missing or at least 3600 seconds
\* old; a run that skips the download exits with code 0 and leaves the file as
\* it found it; and the command line of the server's refresh step holds
\* --force, so that a run started with it always downloads.
C23_DownloadUnlessFresh ==
    /\ \E i \in DOMAIN SheetsArgv : SheetsArgv[i] = "--force"
    /\ spc = "done" =>
          LET forced == \E i \in DOMAIN sync_argv : sync_argv[i] = "--force"
              stale == ~csv_found.exists \/ csv_found.age >= 3600
              downloaded == sync_response # "none"
          IN  /\ downloaded = (forced \/ stale)
              /\ sync_argv = SheetsArgv => downloaded
              /\ ~downloaded => (sync_exit = 0 /\ csv = csv_found)

\* Witness for C23: a run without --force found a file 3599 seconds old and
\* ended with code 0 without any request.
C23_Witness ==
    /\ spc = "done"
    /\ sync_argv = <<>>
    /\ csv_found.exists /\ csv_found.age = 3599
    /\ sync_response = "none"
    /\ sync_exit = 0

\* C30: a fetch that reports failure leaves its data file as it was: a sheet
\* sync that exits with code 1 has not modified ventas_2026.csv; in the Meta
\* refresh a failed fetch has not written its JSON file, every fetch is run
\* whatever the earlier ones did, each successful fetch has written its file,
\* and the exit code is non-zero exactly when a fetch failed.
C30_FailedFetchKeepsFile ==
    /\ (spc = "done" /\ sync_exit = 1) => csv = csv_found
    /\ \A i \in DOMAIN meta_results :
          meta_files[MetaFetches[i]] = (IF meta_results[i] = "data" THEN "new" ELSE "old")
    /\ meta_exit # -1 =>
          /\ Len(meta_results) = Len(MetaFetches)
          /\ (meta_exit # 0) = (\E i \in DOMAIN meta_results : meta_results[i] # "data")

====
